---- MODULE Spec2Model ----
(***************************************************************************)
(* gitdb: the lock-guarded repository checkout (package goget) and the     *)
(* operations it offers: Refresh, GetFile, LsFiles, LsDir, ZipContent.     *)
(*                                                                         *)
(* Strings that the code inspects byte by byte (paths, prefixes) are       *)
(* sequences of one-character strings; the separator is "/".               *)
(***************************************************************************)
EXTENDS Integers, Sequences, FiniteSets, TLC

(***************************************************************************)
(* Bounds of the model.                                                    *)
(***************************************************************************)
\* number of pushes the remotes receive
MaxPush == 2

(***************************************************************************)
(* Bytes and strings.                                                      *)
(***************************************************************************)
Chars == {".", "/", "a", "b", "f", "g", "m", "n", "s", "x", "y"}

\* byte value of a character: Go compares strings byte-wise
Ord(ch) ==
    CASE ch = "." -> 46 [] ch = "/" -> 47 [] ch = "a" -> 97 [] ch = "b" -> 98
      [] ch = "f" -> 102 [] ch = "g" -> 103 [] ch = "m" -> 109 [] ch = "n" -> 110
      [] ch = "s" -> 115 [] ch = "x" -> 120 [] ch = "y" -> 121

RECURSIVE StrLess(_, _)
\* Go's s < t on strings
StrLess(s, t) ==
    IF t = <<>> THEN FALSE
    ELSE IF s = <<>> THEN TRUE
    ELSE IF Ord(Head(s)) # Ord(Head(t)) THEN Ord(Head(s)) < Ord(Head(t))
    ELSE StrLess(Tail(s), Tail(t))

\* strings.HasPrefix
HasPrefix(s, prefix) ==
    /\ Len(prefix) <= Len(s)
    /\ SubSeq(s, 1, Len(prefix)) = prefix

\* strings.TrimPrefix
TrimPrefix(s, prefix) ==
    IF HasPrefix(s, prefix) THEN SubSeq(s, Len(prefix) + 1, Len(s)) ELSE s

RECURSIVE TrimLeft(_, _)
TrimLeft(s, ch) ==
    IF s # <<>> /\ Head(s) = ch THEN TrimLeft(Tail(s), ch) ELSE s

RECURSIVE TrimRight(_, _)
TrimRight(s, ch) ==
    IF s # <<>> /\ s[Len(s)] = ch THEN TrimRight(SubSeq(s, 1, Len(s) - 1), ch) ELSE s

\* variant: only the leading separators are trimmed
TrimLeading(s, ch) == TrimLeft(s, ch)

\* strings.Trim(s, "/")
Trim(s, ch) == TrimRight(TrimLeft(s, ch), ch)

RECURSIVE SplitAcc(_, _, _)
SplitAcc(s, sep, cur) ==
    IF s = <<>> THEN <<cur>>
    ELSE IF Head(s) = sep THEN <<cur>> \o SplitAcc(Tail(s), sep, <<>>)
    ELSE SplitAcc(Tail(s), sep, Append(cur, Head(s)))

\* strings.Split(s, "/"): the empty string splits into one empty part
Split(s, sep) == SplitAcc(s, sep, <<>>)

RECURSIVE Join(_, _)
\* strings.Join / path.Join of non-empty parts
Join(parts, sep) ==
    IF parts = <<>> THEN <<>>
    ELSE IF Len(parts) = 1 THEN parts[1]
    ELSE parts[1] \o <<sep>> \o Join(Tail(parts), sep)

(***************************************************************************)
(* The object graph.  Objects are content addressed and immutable: a       *)
(* commit hash determines its tree, a tree hash its entries, a blob hash   *)
(* its bytes.  Only the set of objects present in a store and the refs     *)
(* change.                                                                 *)
(***************************************************************************)
Branches == {"master", "staging"}
\* branch names requests may carry; "blarg" never exists on a remote
BranchNames == Branches \cup {"blarg"}
Commits == {"m1", "m2", "s1", "s2"}
NoRef == "none"

\* the files committed in each commit: path -> bytes
CommitFiles(h) ==
    CASE h = "m1" ->
            (<<"a", "/", "f">> :> "file_in_directory\n")
         @@ (<<"a", "/", "s", "/", "x">> :> "file1\n")
         @@ (<<"a", "/", "s", "/", "y">> :> "file2\n")
         @@ (<<"a", ".", "b">> :> "dot\n")
         @@ (<<"m">> :> "true\n")
      [] h = "m2" ->
            (<<"a", "/", "f">> :> "file_in_directory v2\n")
         @@ (<<"a", "/", "n">> :> "new\n")
         @@ (<<"a", "/", "s", "/", "y">> :> "file2\n")
         @@ (<<"m">> :> "true\n")
      [] h = "s1" ->
            (<<"a", "/", "f">> :> "file_in_directory\n")
         @@ (<<"g">> :> "staging\n")
      [] h = "s2" ->
            (<<"g">> :> "staging v2\n")
         @@ (<<"a", "b">> :> "ab\n")
         @@ (<<"a", "/", "b">> :> "a/b\n")

\* the commit a push moves a branch to
NextCommit(h) ==
    CASE h = "m1" -> "m2" [] h = "s1" -> "s2" [] OTHER -> NoRef


(***************************************************************************)
(* Trees.  A tree is named by its commit and the directory (a sequence of  *)
(* path parts) it sits at; its entries follow from the committed files.    *)
(***************************************************************************)
FileParts(h) == {Split(f, "/") : f \in DOMAIN CommitFiles(h)}

IsPrefixOf(dir, parts) ==
    /\ Len(dir) < Len(parts)
    /\ SubSeq(parts, 1, Len(dir)) = dir

\* the directory dir exists as a tree in commit h (the root always does)
IsTree(h, dir) == dir = <<>> \/ \E parts \in FileParts(h) : IsPrefixOf(dir, parts)

EntryNames(h, dir) ==
    {parts[Len(dir) + 1] : parts \in {q \in FileParts(h) : IsPrefixOf(dir, q)}}

\* content address of the object at a path of commit h
ObjectHash(h, parts) ==
    IF IsTree(h, parts)
    THEN <<"tree", {<<SubSeq(q, Len(parts) + 1, Len(q)), CommitFiles(h)[Join(q, "/")]>> :
                      q \in {q \in FileParts(h) : IsPrefixOf(parts, q)}}>>
    ELSE <<"blob", CommitFiles(h)[Join(parts, "/")]>>

\* object.TreeEntry: Mode is filemode.Dir (0040000) or filemode.Regular (0100644)
TreeEntry(h, dir, name) ==
    [Name |-> name,
     Mode |-> IF IsTree(h, Append(dir, name)) THEN 16384 ELSE 33188,
     Hash |-> ObjectHash(h, Append(dir, name))]

IsDirEntry(e) == e.Mode = 16384

\* git stores the entries of a tree ordered by name, a directory's name
\* compared as if it ended in "/"
GitKey(e) == IF IsDirEntry(e) THEN Append(e.Name, "/") ELSE e.Name

RECURSIVE TreeOrder(_)
TreeOrder(S) ==
    IF S = {} THEN <<>>
    ELSE LET m == CHOOSE x \in S : \A y \in S \ {x} : StrLess(GitKey(x), GitKey(y))
         IN  <<m>> \o TreeOrder(S \ {m})

\* Tree.Entries of the tree at dir
TreeEntries(h, dir) == TreeOrder({TreeEntry(h, dir, n) : n \in EntryNames(h, dir)})

RECURSIVE FindEntryFrom(_, _, _)
\* Tree.FindEntry: every part but the last must name a directory of the
\* tree walked so far, the last part any entry
FindEntryFrom(h, dir, parts) ==
    IF Len(parts) > 1
    THEN IF parts[1] \in EntryNames(h, dir) /\ IsTree(h, Append(dir, parts[1]))
         THEN FindEntryFrom(h, Append(dir, parts[1]), Tail(parts))
         ELSE [err |-> "ErrDirectoryNotFound", at |-> <<>>]
    ELSE IF parts[1] \in EntryNames(h, dir)
         THEN [err |-> "", at |-> Append(dir, parts[1])]
         ELSE [err |-> "ErrEntryNotFound", at |-> <<>>]

FindEntry(h, path) == FindEntryFrom(h, <<>>, Split(path, "/"))

\* Tree.File: any lookup failure, and an entry that is no blob, is
\* ErrFileNotFound
TreeFile(h, path) ==
    LET e == FindEntry(h, path)
    IN  IF e.err # "" \/ IsTree(h, e.at)
        THEN [err |-> "ErrFileNotFound", blob |-> ""]
        ELSE [err |-> "", blob |-> CommitFiles(h)[Join(e.at, "/")]]

\* variant: an entry that is a blob is taken for a tree
TreeTreeAnyEntry(h, path) ==
    LET e == FindEntry(h, path)
    IN  IF e.err # ""
        THEN [err |-> "ErrDirectoryNotFound", dir |-> <<>>]
        ELSE [err |-> "", dir |-> e.at]

\* Tree.Tree: any lookup failure, and an entry that is no tree, is
\* ErrDirectoryNotFound
TreeTree(h, path) ==
    LET e == FindEntry(h, path)
    IN  IF e.err # "" \/ ~IsTree(h, e.at)
        THEN [err |-> "ErrDirectoryNotFound", dir |-> <<>>]
        ELSE [err |-> "", dir |-> e.at]

RECURSIVE WalkFiles(_, _, _)
\* Commit.Files: the tree walker visits the entries in stored order and
\* descends into a directory where it meets it; only blobs are yielded
WalkFiles(h, dir, es) ==
    IF es = <<>> THEN <<>>
    ELSE LET e == Head(es)
             at == Append(dir, e.Name)
         IN  (IF IsDirEntry(e)
              THEN WalkFiles(h, at, TreeEntries(h, at))
              ELSE <<Join(at, "/")>>)
             \o WalkFiles(h, dir, Tail(es))

\* the walk of every commit from its root tree
FilesByCommit == [h \in Commits |-> WalkFiles(h, <<>>, TreeEntries(h, <<>>))]

CommitFileNames(h) == FilesByCommit[h]


(***************************************************************************)
(* Errors.  An error is the chain of errors it wraps, outermost first;     *)
(* the empty chain is nil.                                                 *)
(***************************************************************************)
NilErr == <<>>

\* fmt.Errorf("...: %w", err)
Wrap(msg, err) == <<msg>> \o err

\* &unknownBranch{branch, wraps: err}
unknownBranch(err) == <<"unknownBranch">> \o err

\* variant: an unknownBranch that matches every target
unknownBranchIsAny(target) == TRUE

\* (*unknownBranch).Is
unknownBranchIs(target) == target = "UnknownBranchErr"

\* errors.Is: some error of the chain equals the target or says it Is it
ErrorsIs(err, target) ==
    \E i \in 1..Len(err) :
        \/ err[i] = target
        \/ err[i] = "unknownBranch" /\ unknownBranchIs(target)

(***************************************************************************)
(* What the operations compute from the store they read under the lock.    *)
(* refsC maps the tracked branches to commit hashes, objsC is the set of   *)
(* commits present in the object store.                                    *)
(***************************************************************************)
\* variant: a tracked branch resolves to the commit found at the clone, kept
\* from then on
ReferenceCached(refsC, branch) ==
    IF branch \in DOMAIN refsC /\ refsC[branch] # NoRef
    THEN [err |-> NilErr, hash |-> IF branch = "master" THEN "m1" ELSE "s1"]
    ELSE [err |-> <<"ErrReferenceNotFound">>, hash |-> NoRef]

\* repo.Reference(NewRemoteReferenceName("origin", branch), true)
Reference(refsC, branch) ==
    IF branch \in DOMAIN refsC /\ refsC[branch] # NoRef
    THEN [err |-> NilErr, hash |-> refsC[branch]]
    ELSE [err |-> <<"ErrReferenceNotFound">>, hash |-> NoRef]

\* repo.CommitObject(hash)
CommitObject(objsC, hash) ==
    IF hash \in objsC THEN NilErr ELSE <<"ErrObjectNotFound">>

NoResult == [kind |-> "none"]

\* fileContent: the handle on the blob of fileName in the commit r points to
fileContent(objsC, fileName, r) ==
    IF CommitObject(objsC, r) # NilErr
    THEN [err |-> Wrap("unable to make tree object", CommitObject(objsC, r)), blob |-> ""]
    ELSE LET f == TreeFile(r, fileName)
         IN  IF f.err # ""
             THEN [err |-> Wrap("unable to fetch file", <<f.err>>), blob |-> ""]
             ELSE [err |-> NilErr, blob |-> f.blob]

\* variant: the file is read from the default branch whatever branch is asked
GetFileLockedDefaultBranch(refsC, objsC, branch, path) ==
    LET r == Reference(refsC, branch)
    IN  IF r.err # NilErr
        THEN [err |-> unknownBranch(r.err), ret |-> NoResult, r |-> NoRef]
        ELSE LET f == fileContent(objsC, path, refsC["master"])
             IN  IF f.err # NilErr
                 THEN [err |-> f.err, ret |-> NoResult, r |-> r.hash]
                 ELSE [err |-> NilErr, ret |-> [kind |-> "bytes", val |-> f.blob],
                       r |-> r.hash]

\* the locked section of GetFile
GetFileLocked(refsC, objsC, branch, path) ==
    LET r == Reference(refsC, branch)
    IN  IF r.err # NilErr
        THEN [err |-> unknownBranch(r.err), ret |-> NoResult, r |-> NoRef]
        ELSE LET f == fileContent(objsC, path, r.hash)
             IN  IF f.err # NilErr
                 THEN [err |-> f.err, ret |-> NoResult, r |-> r.hash]
                 ELSE [err |-> NilErr, ret |-> [kind |-> "bytes", val |-> f.blob],
                       r |-> r.hash]

\* lsFilesNoLock
lsFilesNoLock(refsC, objsC, branch) ==
    LET r == Reference(refsC, branch)
    IN  IF r.err # NilErr
        THEN [err |-> unknownBranch(r.err), files |-> <<>>, r |-> NoRef]
        ELSE IF CommitObject(objsC, r.hash) # NilErr
        THEN [err |-> Wrap("unable to make tree object", CommitObject(objsC, r.hash)),
              files |-> <<>>, r |-> r.hash]
        ELSE [err |-> NilErr, files |-> CommitFileNames(r.hash), r |-> r.hash]

\* sort.Slice(retStat, Name <): insertion of one element into a sorted slice
RECURSIVE InsertByName(_, _)
InsertByName(sorted, e) ==
    IF sorted = <<>> THEN <<e>>
    ELSE IF StrLess(e.Name, Head(sorted).Name) THEN <<e>> \o sorted
    ELSE <<Head(sorted)>> \o InsertByName(Tail(sorted), e)

RECURSIVE SortByName(_)
SortByName(stats) ==
    IF stats = <<>> THEN <<>>
    ELSE InsertByName(SortByName(Tail(stats)), Head(stats))

\* FileStat{Name, Mode, Hash} of every entry, in the order of te.Entries
ToFileStats(es) == [i \in 1..Len(es) |-> [Name |-> es[i].Name, Mode |-> es[i].Mode,
                                           Hash |-> es[i].Hash]]

\* variant: the entries in stored order, the sort left out
LsDirUnsorted(es) == ToFileStats(es)

\* what LsDir appends and then sorts
LsDirStats(es) == SortByName(ToFileStats(es))

\* the locked section of LsDir
LsDirLocked(refsC, objsC, dir, branch) ==
    LET r == Reference(refsC, branch)
    IN  IF r.err # NilErr
        THEN [err |-> unknownBranch(r.err), ret |-> NoResult, r |-> NoRef]
        ELSE IF CommitObject(objsC, r.hash) # NilErr
        THEN [err |-> Wrap("unable to make commit object", CommitObject(objsC, r.hash)),
              ret |-> NoResult, r |-> r.hash]
        ELSE LET te == IF dir # <<>> THEN TreeTree(r.hash, dir)
                       ELSE [err |-> "", dir |-> <<>>]
             IN  IF te.err # ""
                 THEN [err |-> Wrap("unable to find entry named", <<te.err>>),
                       ret |-> NoResult, r |-> r.hash]
                 ELSE [err |-> NilErr,
                       ret |-> [kind |-> "stats",
                                val |-> LsDirStats(TreeEntries(r.hash, te.dir))],
                       r |-> r.hash]

RECURSIVE ZipLoop(_, _, _, _, _)
\* the loop of ZipContent over files: the archive entries written so far
ZipLoop(objsC, files, prefix, r, written) ==
    IF files = <<>> THEN [err |-> NilErr, entries |-> written]
    ELSE LET file == Head(files)
         IN  IF ~HasPrefix(file, prefix)
             THEN ZipLoop(objsC, Tail(files), prefix, r, written)
             ELSE LET filePath == SubSeq(file, Len(prefix) + 1, Len(file))
                      wt == fileContent(objsC, file, r)
                  IN  IF wt.err # NilErr
                      THEN [err |-> Wrap("unable to get file content", wt.err),
                            entries |-> written]
                      ELSE ZipLoop(objsC, Tail(files), prefix, r,
                                   Append(written, [name |-> TrimPrefix(filePath, <<"/">>),
                                                    content |-> wt.blob]))

\* ZipContent after lsFilesNoLock: the second Reference and the loop
ZipContentLocked(refsC, objsC, files, lsErr, prefix, branch) ==
    IF lsErr # NilErr
    THEN [err |-> Wrap("unable to list files", lsErr), ret |-> NoResult, r |-> NoRef]
    ELSE LET r == Reference(refsC, branch)
         IN  IF r.err # NilErr
             THEN [err |-> unknownBranch(r.err), ret |-> NoResult, r |-> NoRef]
             ELSE LET z == ZipLoop(objsC, files, Trim(prefix, "/"), r.hash, <<>>)
                  IN  [err |-> z.err,
                       ret |-> [kind |-> "zip", val |-> z.entries, n |-> Len(z.entries)],
                       r |-> r.hash]


(***************************************************************************)
(* The state: the checkouts (GitCheckout), their remotes, and the request  *)
(* goroutines calling into them.                                           *)
(***************************************************************************)
Checkouts == {"repoA", "repoB"}
Procs == {"p1", "p2", "p3"}
None == "nobody"

ReadOps == {"GetFile", "LsFiles", "LsDir", "ZipContent"}

VARIABLES
    refs,       \* refs[c][b]: the remote-tracking ref origin/b of checkout c
    objs,       \* objs[c]: the commits present in the object store of c
    remote,     \* remote[c][b]: the head of branch b on the remote of c
    mu,         \* mu[c]: the sync.RWMutex of c: the writer holding or
                \* awaiting it (w) and the readers inside (readers)
    pc,         \* pc[p]: where goroutine p stands in its operation
    op,         \* op[p]: the operation p runs and its arguments
    loc,        \* loc[p]: the local variables and the result of p
    committed,  \* history: committed[c] is refs[c] as the last Refresh left it
    seen,       \* history: what p found committed when called and when locked
    pushes,     \* number of pushes made to the remotes
    handler     \* the CheckoutHandler and the Provider built at startup: the
                \* maps Checkouts and checkoutConfigs by alias, the Provider's
                \* Checkouts by remote URL (byRepo), and how far NewHandler is

vars == <<refs, objs, remote, mu, pc, op, loc, committed, seen, pushes, handler>>

NoOp == [name |-> "none", co |-> "none", branch |-> "none", path |-> <<>>]

NoGraph == [b \in Branches |-> NoRef]

LocInit ==
    [r |-> NoRef, r2 |-> NoRef, lsErr |-> NilErr, files |-> <<>>, ret |-> NoResult,
     err |-> NilErr, adv |-> NoGraph, todo |-> {}, fetchErr |-> NilErr,
     code |-> 0, body |-> "", visit |-> {},
     f |-> "", buf |-> <<>>, got |-> <<>>, late |-> FALSE, cancelled |-> FALSE]

SeenInit ==
    [begin |-> NoGraph, lock |-> NoGraph, lockObjs |-> {}, lockRemote |-> NoGraph,
     calls |-> <<>>, results |-> <<>>]

\* the remoteURL field a checkout was cloned from
remoteURL(c) ==
    CASE c = "repoA" -> "git@github.com:org/repoA.git"
      [] c = "repoB" -> "git@github.com:org/repoB.git"

\* the handler NewHandler returns for the two configured repositories, each
\* under its alias; repoA is configured public, repoB is not.  byRepo is
\* the map Setup takes from CheckoutsByRepo: the same checkouts keyed by
\* their remote URL
ServingHandler ==
    [phase |-> "serving", cfg |-> <<>>, idx |-> 0, fs |-> {}, log |-> <<>>,
     Checkouts |-> [a \in Checkouts |-> a],
     checkoutConfigs |-> [a \in Checkouts |->
                             [URL |-> remoteURL(a), Alias |-> a, Public |-> a = "repoA"]],
     byRepo |-> [u \in {remoteURL(c) : c \in Checkouts} |->
                    CHOOSE c \in Checkouts : remoteURL(c) = u]]

\* git.PlainCloneContext: the clone holds what the remote holds
InitStore ==
    /\ remote = [c \in Checkouts |-> [b \in Branches |->
                    IF b = "master" THEN "m1" ELSE "s1"]]
    /\ refs = remote
    /\ objs = [c \in Checkouts |-> {"m1", "s1"}]
    /\ mu = [c \in Checkouts |-> [w |-> None, active |-> FALSE, readers |-> {}]]
    /\ pc = [p \in Procs |-> "idle"]
    /\ op = [p \in Procs |-> NoOp]
    /\ loc = [p \in Procs |-> LocInit]
    /\ committed = refs
    /\ seen = [p \in Procs |-> SeenInit]
    /\ pushes = 0

\* the server as it serves: every configured repository cloned
Init ==
    /\ InitStore
    /\ handler = ServingHandler

(***************************************************************************)
(* The environment: somebody pushes to a remote.                           *)
(***************************************************************************)
Push(c, b) ==
    /\ pushes < MaxPush
    /\ NextCommit(remote[c][b]) # NoRef
    /\ remote' = [remote EXCEPT ![c][b] = NextCommit(remote[c][b])]
    /\ pushes' = pushes + 1
    /\ UNCHANGED <<refs, objs, mu, pc, op, loc, committed, seen, handler>>

(***************************************************************************)
(* sync.RWMutex.                                                           *)
(***************************************************************************)
\* variant: a reader that does not wait for the writer
CanRLockIgnoringWriter(m) == TRUE

\* variant: one mutex shared by all checkouts
CanRLockGlobal(m) == \A c \in Checkouts : mu[c].w = None

\* variant: a plain mutex, one reader at a time
CanRLockExclusive(m) == m.w = None /\ m.readers = {}

\* RLock returns once no writer holds or awaits the mutex
CanRLock(m) == m.w = None

\* variant: writers that do not exclude each other
CanLockAlways(m) == TRUE

\* Lock first takes the writers' mutex: one writer at a time
CanLock(m) == m.w = None

\* variant: a writer that does not wait for the readers
CanEnterWithReaders(m) == TRUE

\* Lock then waits for the readers inside to leave
CanEnter(m) == m.readers = {}

(***************************************************************************)
(* A goroutine is handed one request and calls the operation; it ends      *)
(* ("done") when the operation has returned.                               *)
(***************************************************************************)
Call(p, o) ==
    /\ pc[p] = "idle"
    /\ op' = [op EXCEPT ![p] = o]
    /\ pc' = [pc EXCEPT ![p] = IF o.name = "Refresh" THEN "Lock" ELSE "RLock"]
    /\ loc' = [loc EXCEPT ![p] = LocInit]
    /\ seen' = [seen EXCEPT ![p] = [SeenInit EXCEPT !.begin = committed[o.co]]]
    /\ UNCHANGED <<refs, objs, remote, mu, committed, pushes, handler>>

(***************************************************************************)
(* The read operations: g.mu.RLock(); defer g.mu.RUnlock(); body.          *)
(***************************************************************************)
RLock(p) ==
    /\ pc[p] = "RLock"
    /\ CanRLock(mu[op[p].co])
    /\ mu' = [mu EXCEPT ![op[p].co].readers = @ \cup {p}]
    /\ pc' = [pc EXCEPT ![p] = op[p].name]
    /\ seen' = [seen EXCEPT ![p].lock = committed[op[p].co],
                            ![p].lockObjs = objs[op[p].co]]
    /\ UNCHANGED <<refs, objs, remote, op, loc, committed, pushes, handler>>

GetFile(p) ==
    /\ pc[p] = "GetFile"
    /\ LET c == op[p].co
           g == GetFileLocked(refs[c], objs[c], op[p].branch, op[p].path)
       IN  loc' = [loc EXCEPT ![p].r = g.r, ![p].err = g.err, ![p].ret = g.ret]
    /\ pc' = [pc EXCEPT ![p] = "RUnlock"]
    /\ UNCHANGED <<refs, objs, remote, mu, op, committed, seen, pushes, handler>>

\* variant: a listing that drops from the object store every commit no
\* tracking ref points to
LsFilesPruning(p) ==
    /\ pc[p] = "LsFiles"
    /\ LET c == op[p].co
           l == lsFilesNoLock(refs[c], objs[c], op[p].branch)
       IN  /\ loc' = [loc EXCEPT ![p].r = l.r, ![p].err = l.err,
                                 ![p].ret = IF l.err = NilErr
                                            THEN [kind |-> "names", val |-> l.files]
                                            ELSE NoResult]
           /\ objs' = [objs EXCEPT ![c] = {refs[c][b] : b \in Branches}]
    /\ pc' = [pc EXCEPT ![p] = "RUnlock"]
    /\ UNCHANGED <<refs, remote, mu, op, committed, seen, pushes, handler>>

LsFiles(p) ==
    /\ pc[p] = "LsFiles"
    /\ LET c == op[p].co
           l == lsFilesNoLock(refs[c], objs[c], op[p].branch)
       IN  loc' = [loc EXCEPT ![p].r = l.r, ![p].err = l.err,
                              ![p].ret = IF l.err = NilErr
                                         THEN [kind |-> "names", val |-> l.files]
                                         ELSE NoResult]
    /\ pc' = [pc EXCEPT ![p] = "RUnlock"]
    /\ UNCHANGED <<refs, objs, remote, mu, op, committed, seen, pushes, handler>>

LsDir(p) ==
    /\ pc[p] = "LsDir"
    /\ LET c == op[p].co
           l == LsDirLocked(refs[c], objs[c], op[p].path, op[p].branch)
       IN  loc' = [loc EXCEPT ![p].r = l.r, ![p].err = l.err, ![p].ret = l.ret]
    /\ pc' = [pc EXCEPT ![p] = "RUnlock"]
    /\ UNCHANGED <<refs, objs, remote, mu, op, committed, seen, pushes, handler>>

\* variant: ZipContent lists the files through LsFiles, which takes the
\* shared lock again while ZipContent holds it
ZipLsFilesLocking(p) ==
    /\ pc[p] = "ZipContent"
    /\ CanRLock(mu[op[p].co])
    /\ LET c == op[p].co
           l == lsFilesNoLock(refs[c], objs[c], op[p].branch)
       IN  loc' = [loc EXCEPT ![p].r = l.r, ![p].lsErr = l.err, ![p].files = l.files]
    /\ pc' = [pc EXCEPT ![p] = "ZipLoop"]
    /\ UNCHANGED <<refs, objs, remote, mu, op, committed, seen, pushes, handler>>

\* ZipContent up to the file list
ZipLsFiles(p) ==
    /\ pc[p] = "ZipContent"
    /\ LET c == op[p].co
           l == lsFilesNoLock(refs[c], objs[c], op[p].branch)
       IN  loc' = [loc EXCEPT ![p].r = l.r, ![p].lsErr = l.err, ![p].files = l.files]
    /\ pc' = [pc EXCEPT ![p] = "ZipLoop"]
    /\ UNCHANGED <<refs, objs, remote, mu, op, committed, seen, pushes, handler>>

\* ZipContent from the second Reference to the closed archive
ZipContent(p) ==
    /\ pc[p] = "ZipLoop"
    /\ LET c == op[p].co
           z == ZipContentLocked(refs[c], objs[c], loc[p].files, loc[p].lsErr,
                                 op[p].path, op[p].branch)
       IN  loc' = [loc EXCEPT ![p].r2 = z.r, ![p].err = z.err, ![p].ret = z.ret]
    /\ pc' = [pc EXCEPT ![p] = "RUnlock"]
    /\ UNCHANGED <<refs, objs, remote, mu, op, committed, seen, pushes, handler>>

\* variant: RUnlock as the last statement instead of deferred: a return with
\* an error leaves the mutex read-locked
RUnlockOnSuccess(p) ==
    /\ pc[p] = "RUnlock"
    /\ mu' = [mu EXCEPT ![op[p].co].readers =
                            IF loc[p].err = NilErr THEN @ \ {p} ELSE @]
    /\ pc' = [pc EXCEPT ![p] = "done"]
    /\ UNCHANGED <<refs, objs, remote, op, loc, committed, seen, pushes, handler>>

\* the deferred RUnlock, and the return
RUnlock(p) ==
    /\ pc[p] = "RUnlock"
    /\ mu' = [mu EXCEPT ![op[p].co].readers = @ \ {p}]
    /\ pc' = [pc EXCEPT ![p] = "done"]
    /\ UNCHANGED <<refs, objs, remote, op, loc, committed, seen, pushes, handler>>


(***************************************************************************)
(* Refresh: g.mu.Lock(); defer g.mu.Unlock(); g.repo.FetchContext(...).    *)
(***************************************************************************)
Lock(p) ==
    /\ pc[p] = "Lock"
    /\ CanLock(mu[op[p].co])
    /\ mu' = [mu EXCEPT ![op[p].co].w = p]
    /\ pc' = [pc EXCEPT ![p] = "LockWait"]
    /\ UNCHANGED <<refs, objs, remote, op, loc, committed, seen, pushes, handler>>

LockEnter(p) ==
    /\ pc[p] = "LockWait"
    /\ CanEnter(mu[op[p].co])
    /\ mu' = [mu EXCEPT ![op[p].co].active = TRUE]
    /\ pc' = [pc EXCEPT ![p] = "Fetch"]
    /\ seen' = [seen EXCEPT ![p].lock = refs[op[p].co],
                            ![p].lockObjs = objs[op[p].co]]
    /\ UNCHANGED <<refs, objs, remote, op, loc, committed, pushes, handler>>

\* the outcomes of the transport: the pack arrives, the network fails, or
\* the context is cancelled
NetOutcomes == {"ok", "network failure", "context canceled"}

\* the branches whose advertised head the local ref does not point to
StaleRefs(refsC, adv) == {b \in Branches : adv[b] # NoRef /\ adv[b] # refsC[b]}

\* the refs the remote advertises and the local refs differ
NeedsUpdate(refsC, adv) == StaleRefs(refsC, adv) # {}

\* FetchContext up to the stored pack: nothing is stored unless the whole
\* pack arrived; with nothing to update the fetch is NoErrAlreadyUpToDate
Fetch(p, net) ==
    /\ pc[p] = "Fetch"
    /\ LET c == op[p].co
           adv == remote[c]
       IN  /\ seen' = [seen EXCEPT ![p].lockRemote = adv]
           /\ IF net # "ok"
              THEN /\ loc' = [loc EXCEPT ![p].fetchErr = <<net>>]
                   /\ pc' = [pc EXCEPT ![p] = "Fetched"]
                   /\ UNCHANGED objs
              ELSE IF ~NeedsUpdate(refs[c], adv)
              THEN /\ loc' = [loc EXCEPT ![p].fetchErr = <<"NoErrAlreadyUpToDate">>]
                   /\ pc' = [pc EXCEPT ![p] = "Fetched"]
                   /\ UNCHANGED objs
              ELSE /\ loc' = [loc EXCEPT ![p].adv = adv,
                                          ![p].todo = StaleRefs(refs[c], adv)]
                   /\ pc' = [pc EXCEPT ![p] = "UpdateRefs"]
                   /\ objs' = [objs EXCEPT ![c] = @ \cup {adv[b] : b \in Branches}]
    /\ UNCHANGED <<refs, remote, mu, op, committed, pushes, handler>>

\* FetchContext, updating the local references one at a time
UpdateRef(p, b) ==
    /\ pc[p] = "UpdateRefs"
    /\ b \in loc[p].todo
    /\ refs' = [refs EXCEPT ![op[p].co][b] = loc[p].adv[b]]
    /\ loc' = [loc EXCEPT ![p].todo = @ \ {b}]
    /\ pc' = [pc EXCEPT ![p] = IF loc[p].todo = {b} THEN "Fetched" ELSE "UpdateRefs"]
    /\ UNCHANGED <<objs, remote, mu, op, committed, seen, pushes, handler>>

\* variant: every fetch error is swallowed
RefreshResultSwallow(fetchErr) == NilErr

\* variant: an up-to-date fetch is reported as a failure
RefreshResultStrict(fetchErr) ==
    IF fetchErr = NilErr THEN NilErr
    ELSE <<"unable to refresh repository">> \o fetchErr

\* what Refresh returns for what FetchContext returned
RefreshResult(fetchErr) ==
    IF fetchErr = NilErr \/ ErrorsIs(fetchErr, "NoErrAlreadyUpToDate")
    THEN NilErr
    ELSE Wrap("unable to refresh repository", fetchErr)

\* where Refresh returns to: into the handler that called it, or to the
\* goroutine that called it directly
ReturnLabel(name) ==
    CASE name = "refreshRepoHandler" -> "refreshRepoReturn"
      [] name = "refreshAllRepoHandler" -> "refreshAllReturn"
      [] name = "githubWebhook" -> "pushEventReturn"
      [] OTHER -> "done"

\* the deferred Unlock, and the return
Unlock(p) ==
    /\ pc[p] = "Fetched"
    /\ mu' = [mu EXCEPT ![op[p].co].w = None, ![op[p].co].active = FALSE]
    /\ loc' = [loc EXCEPT ![p].err = RefreshResult(loc[p].fetchErr)]
    /\ committed' = [committed EXCEPT ![op[p].co] = refs[op[p].co]]
    /\ pc' = [pc EXCEPT ![p] = ReturnLabel(op[p].name)]
    /\ UNCHANGED <<refs, objs, remote, op, seen, pushes, handler>>

(***************************************************************************)
(* The requests of the specifications.                                     *)
(***************************************************************************)
Request(name, c, b, path) == [name |-> name, co |-> c, branch |-> b, path |-> path]

\* the requests each goroutine may be handed when the requests race: p1
\* reads repoA, p2 reads or refreshes either checkout, p3 refreshes
RequestsOf(p) ==
    CASE p = "p1" ->
            {Request("GetFile", "repoA", b, <<"m">>) : b \in {"master", "blarg"}}
            \cup {Request("LsFiles", "repoA", "master", <<>>),
                  Request("LsDir", "repoA", "master", <<"a">>),
                  Request("ZipContent", "repoA", "master", <<"a", "/">>)}
      [] p = "p2" ->
            {Request("Refresh", "repoA", "none", <<>>),
             Request("GetFile", "repoB", "master", <<"m">>),
             Request("ZipContent", "repoA", "staging", <<>>)}
      [] p = "p3" ->
            {Request("Refresh", c, "none", <<>>) : c \in Checkouts}

\* every step of an operation in progress
Step ==
    \/ \E p \in Procs : RLock(p)
    \/ \E p \in Procs : GetFile(p)
    \/ \E p \in Procs : LsFiles(p)
    \/ \E p \in Procs : LsDir(p)
    \/ \E p \in Procs : ZipLsFiles(p)
    \/ \E p \in Procs : ZipContent(p)
    \/ \E p \in Procs : RUnlock(p)
    \/ \E p \in Procs : Lock(p)
    \/ \E p \in Procs : LockEnter(p)
    \/ \E p \in Procs, net \in NetOutcomes : Fetch(p, net)
    \/ \E p \in Procs, b \in Branches : UpdateRef(p, b)
    \/ \E p \in Procs : Unlock(p)

Next ==
    \/ \E c \in Checkouts, b \in Branches : Push(c, b)
    \/ \E p \in Procs : \E o \in RequestsOf(p) : Call(p, o)
    \/ Step

Spec == Init /\ [][Next]_vars


(***************************************************************************)
(* The reads one at a time, on every kind of argument: p1 reads repoA      *)
(* while p3 may refresh it.                                                *)
(***************************************************************************)
FilePaths ==
    {<<>>, <<"m">>, <<"g">>, <<"x">>, <<"a">>, <<"a", "/">>, <<"a", "/", "f">>,
     <<"a", "/", "n">>, <<"a", "/", "s">>, <<"a", "/", "s", "/", "x">>,
     <<"a", ".", "b">>, <<"a", "b">>, <<"m", "/", "x">>, <<"/", "m">>}

DirPaths ==
    {<<>>, <<"a">>, <<"a", "/">>, <<"/", "a">>, <<"a", "/", "s">>, <<"m">>, <<"x">>,
     <<"a", "/", "x">>, <<"a", "/", "f">>}

Prefixes ==
    {<<>>, <<"a">>, <<"a", "/">>, <<"/", "a", "/">>, <<"a", "/", "s">>,
     <<"a", "/", "s", "/">>, <<"g">>, <<"x">>, <<"/">>, <<"a", "/", "f">>}

SeqRequestsOf(p) ==
    CASE p = "p1" ->
            {Request("GetFile", "repoA", b, f) : b \in BranchNames, f \in FilePaths}
            \cup {Request("LsFiles", "repoA", b, <<>>) : b \in BranchNames}
            \cup {Request("LsDir", "repoA", b, d) : b \in BranchNames, d \in DirPaths}
            \cup {Request("ZipContent", "repoA", b, x) : b \in BranchNames, x \in Prefixes}
      [] p = "p3" -> {Request("Refresh", "repoA", "none", <<>>)}
      [] OTHER -> {}

NextSeq ==
    \/ \E b \in Branches : Push("repoA", b)
    \/ \E p \in Procs : \E o \in SeqRequestsOf(p) : Call(p, o)
    \/ Step

SpecSeq == Init /\ [][NextSeq]_vars


(***************************************************************************)
(* The HTTP layer: the router, the handlers of CheckoutHandler and the     *)
(* GitHub webhook.  A response is loc[p].code (0 while there is none) and   *)
(* loc[p].body; a payload travels in loc[p].ret.                            *)
(***************************************************************************)
\* CheckoutHandler.Checkouts: the checkouts by the key NewHandler stored
\* them under
HandlerCheckouts == handler.Checkouts

\* Provider.Checkouts: what Setup took from CheckoutsByRepo
CheckoutsByRepo == handler.byRepo

\* variant: an index expression that stores the zero value under a missing
\* key
MapIndexInserting(m, k) ==
    IF k \in DOMAIN m THEN m ELSE [x \in DOMAIN m \cup {k} |-> IF x = k THEN "nil" ELSE m[x]]

\* the map after v, ok := m[k]: a Go index expression stores nothing
MapIndex(m, k) == m

\* Provider.SetupMux: the webhook route is registered for POST
WebhookRouteMethods == {"POST"}

\* CheckoutHandler.SetupMux: each of its routes is registered with
\* mux.Methods(http.MethodGet)
RouteMethods(name) ==
    IF name = "githubWebhook" THEN WebhookRouteMethods
    ELSE IF name = "JWTSignIn" THEN {"POST"}
    ELSE {"GET"}

\* the handler a route starts with: the routes of SetupPublicJWTHandler wrap
\* theirs in publicRepoMiddleware(middleware.Handler(...)); a request to
\* one of them is one that carries a token field
RouteEntry(o) ==
    IF "token" \in DOMAIN o THEN "publicRepoMiddleware" ELSE o.name

HttpRequest(name, method, repo, branch, path) ==
    [name |-> name, method |-> method, repo |-> repo, branch |-> branch,
     path |-> path, co |-> "none"]

\* a delivery to the webhook: the X-GitHub-Event header, the signature and
\* what the payload holds ("malformed", "norepo", "nourl" or the ssh_url)
WebhookRequest(hookType, sig, payload) ==
    [name |-> "githubWebhook", method |-> "POST", hookType |-> hookType,
     sig |-> sig, payload |-> payload, co |-> "none"]

\* the handler writes its response and returns
Respond(p, code, body) ==
    /\ loc' = [loc EXCEPT ![p].code = code, ![p].body = body]
    /\ pc' = [pc EXCEPT ![p] = "done"]

\* the handler calls c.Refresh(req.Context())
CallRefresh(p, c, rest) ==
    /\ op' = [op EXCEPT ![p].co = c]
    /\ loc' = [loc EXCEPT ![p].fetchErr = NilErr, ![p].err = NilErr,
                          ![p].adv = NoGraph, ![p].todo = {}, ![p].visit = rest]
    /\ seen' = [seen EXCEPT ![p].calls = Append(@, c), ![p].begin = committed[c]]
    /\ pc' = [pc EXCEPT ![p] = "Lock"]

\* the router: a request whose method the route is not registered for is
\* answered 405 and reaches no handler
ServeHTTP(p, o) ==
    /\ handler.phase = "serving"
    /\ pc[p] = "idle"
    /\ op' = [op EXCEPT ![p] = o]
    /\ IF o.method \in RouteMethods(o.name)
       THEN /\ pc' = [pc EXCEPT ![p] = RouteEntry(o)]
            /\ loc' = [loc EXCEPT ![p] = LocInit]
       ELSE /\ pc' = [pc EXCEPT ![p] = "done"]
            /\ loc' = [loc EXCEPT ![p] = [LocInit EXCEPT !.code = 405,
                                                          !.body = "Method Not Allowed"]]
    /\ seen' = [seen EXCEPT ![p] = SeenInit]
    /\ UNCHANGED <<refs, objs, remote, mu, committed, pushes, handler>>

\* WithReference: the checkout pinned to the commit the ref resolves to
WithReference(refsC, branch) ==
    LET r == Reference(refsC, branch)
    IN  IF r.err # NilErr
        THEN [err |-> Wrap("unable to resolve ref", r.err), hash |-> NoRef]
        ELSE [err |-> NilErr, hash |-> r.hash]

\* LsDir of a pinned checkout
LsDirPinned(objsC, r, dir) ==
    IF CommitObject(objsC, r) # NilErr
    THEN [err |-> Wrap("unable to make commit object", CommitObject(objsC, r)),
          stats |-> <<>>]
    ELSE LET te == IF dir # <<>> THEN TreeTree(r, dir)
                   ELSE [err |-> "", dir |-> <<>>]
         IN  IF te.err # ""
             THEN [err |-> Wrap("unable to find entry named", <<te.err>>), stats |-> <<>>]
             ELSE [err |-> NilErr, stats |-> LsDirStats(TreeEntries(r, te.dir))]

\* LsFiles of a pinned checkout
LsFilesPinned(objsC, r) ==
    IF CommitObject(objsC, r) # NilErr
    THEN [err |-> Wrap("unable to make tree object", CommitObject(objsC, r)),
          files |-> <<>>]
    ELSE [err |-> NilErr, files |-> CommitFileNames(r)]

\* ZipContent(ctx, into, prefix, from): numFiles and the entries written
ZipContentFrom(objsC, r, prefix) ==
    LET ls == LsFilesPinned(objsC, r)
    IN  IF ls.err # NilErr
        THEN [err |-> Wrap("unable to list files", ls.err), n |-> 0, entries |-> <<>>]
        ELSE LET z == ZipLoop(objsC, ls.files, Trim(prefix, "/"), r, <<>>)
             IN  [err |-> z.err, n |-> Len(z.entries), entries |-> z.entries]

\* variant: every failure of FileContent is an internal error
getFileResponseAll500(err) == IF err = NilErr THEN 200 ELSE 500

\* getFile: the status for what FileContent returned
getFileResponse(err) ==
    IF err = NilErr THEN 200
    ELSE IF ErrorsIs(err, "ErrFileNotFound") THEN 404
    ELSE 500

\* variant: every failure of LsDir is an internal error
lsDirResponseAll500(err) == IF err = NilErr THEN 200 ELSE 500

\* lsDirHandler: the status for what LsDir returned
lsDirResponse(err) ==
    IF err = NilErr THEN 200
    ELSE IF ErrorsIs(err, "ErrDirectoryNotFound") THEN 404
    ELSE 500

\* variant: an empty archive is served
zipDirResponseEmptyOK(err, numFiles) == IF err # NilErr THEN 500 ELSE 200

\* zipDirHandler: the status for what ZipContent returned
zipDirResponse(err, numFiles) ==
    IF err # NilErr THEN 500
    ELSE IF numFiles = 0 THEN 404
    ELSE 200

\* getFileHandler and getFile, up to the pinned checkout
getFileHandler(p) ==
    /\ pc[p] = "getFileHandler"
    /\ LET o == op[p]
       IN  IF o.repo = "" \/ o.branch = "" \/ o.path = <<>>
           THEN Respond(p, 404, "One unset") /\ UNCHANGED op
           ELSE IF o.repo \notin DOMAIN HandlerCheckouts
           THEN Respond(p, 404, "unable to find repo") /\ UNCHANGED op
           ELSE LET c == HandlerCheckouts[o.repo]
                    w == WithReference(refs[c], o.branch)
                IN  IF w.err # NilErr
                    THEN Respond(p, 404, "unable to find branch") /\ UNCHANGED op
                    ELSE /\ op' = [op EXCEPT ![p].co = c]
                         /\ loc' = [loc EXCEPT ![p].r = w.hash]
                         /\ pc' = [pc EXCEPT ![p] = "getFileContent"]
    /\ UNCHANGED <<refs, objs, remote, mu, committed, seen, pushes>>
    /\ handler' = IF op[p].repo = "" \/ op[p].branch = "" \/ op[p].path = <<>>
                  THEN handler
                  ELSE [handler EXCEPT !.Checkouts = MapIndex(@, op[p].repo)]

\* getFile, from FileContent to the response
getFileContent(p) ==
    /\ pc[p] = "getFileContent"
    /\ LET f == fileContent(objs[op[p].co], op[p].path, loc[p].r)
           code == getFileResponse(f.err)
       IN  loc' = [loc EXCEPT ![p].err = f.err, ![p].code = code,
                              ![p].body = IF code = 200 THEN "file"
                                          ELSE IF code = 404 THEN "unable to find file"
                                          ELSE "Unable to fetch file",
                              ![p].ret = IF code = 200
                                         THEN [kind |-> "bytes", val |-> f.blob]
                                         ELSE NoResult]
    /\ pc' = [pc EXCEPT ![p] = "done"]
    /\ UNCHANGED <<refs, objs, remote, mu, op, committed, seen, pushes, handler>>

\* lsDirHandler, up to the pinned checkout
lsDirHandler(p) ==
    /\ pc[p] = "lsDirHandler"
    /\ LET o == op[p]
       IN  IF o.repo = "" \/ o.branch = ""
           THEN Respond(p, 404, "One unset") /\ UNCHANGED op
           ELSE IF o.repo \notin DOMAIN HandlerCheckouts
           THEN Respond(p, 404, "unable to find repo") /\ UNCHANGED op
           ELSE LET c == HandlerCheckouts[o.repo]
                    w == WithReference(refs[c], o.branch)
                IN  IF w.err # NilErr
                    THEN Respond(p, 404, "unable to find branch") /\ UNCHANGED op
                    ELSE /\ op' = [op EXCEPT ![p].co = c]
                         /\ loc' = [loc EXCEPT ![p].r = w.hash]
                         /\ pc' = [pc EXCEPT ![p] = "lsDirList"]
    /\ UNCHANGED <<refs, objs, remote, mu, committed, seen, pushes>>
    /\ handler' = IF op[p].repo = "" \/ op[p].branch = ""
                  THEN handler
                  ELSE [handler EXCEPT !.Checkouts = MapIndex(@, op[p].repo)]

\* lsDirHandler, from LsDir to the response
lsDirList(p) ==
    /\ pc[p] = "lsDirList"
    /\ LET l == LsDirPinned(objs[op[p].co], loc[p].r, op[p].path)
           code == lsDirResponse(l.err)
       IN  loc' = [loc EXCEPT ![p].err = l.err, ![p].code = code,
                              ![p].body = IF code = 200 THEN "application/json"
                                          ELSE IF code = 404 THEN "directory not found"
                                          ELSE "unable to list path",
                              ![p].ret = IF code = 200
                                         THEN [kind |-> "stats", val |-> l.stats]
                                         ELSE NoResult]
    /\ pc' = [pc EXCEPT ![p] = "done"]
    /\ UNCHANGED <<refs, objs, remote, mu, op, committed, seen, pushes, handler>>

\* zipDirHandler, up to the pinned checkout
zipDirHandler(p) ==
    /\ pc[p] = "zipDirHandler"
    /\ LET o == op[p]
       IN  IF o.repo = "" \/ o.branch = ""
           THEN Respond(p, 404, "One unset") /\ UNCHANGED op
           ELSE IF o.repo \notin DOMAIN HandlerCheckouts
           THEN Respond(p, 404, "unable to find repo") /\ UNCHANGED op
           ELSE LET c == HandlerCheckouts[o.repo]
                    w == WithReference(refs[c], o.branch)
                IN  IF w.err # NilErr
                    THEN Respond(p, 404, "unable to find branch") /\ UNCHANGED op
                    ELSE /\ op' = [op EXCEPT ![p].co = c]
                         /\ loc' = [loc EXCEPT ![p].r = w.hash]
                         /\ pc' = [pc EXCEPT ![p] = "zipDirContent"]
    /\ UNCHANGED <<refs, objs, remote, mu, committed, seen, pushes>>
    /\ handler' = IF op[p].repo = "" \/ op[p].branch = ""
                  THEN handler
                  ELSE [handler EXCEPT !.Checkouts = MapIndex(@, op[p].repo)]

\* zipDirHandler, from ZipContent to the response
zipDirContent(p) ==
    /\ pc[p] = "zipDirContent"
    /\ LET z == ZipContentFrom(objs[op[p].co], loc[p].r, op[p].path)
           code == zipDirResponse(z.err, z.n)
       IN  loc' = [loc EXCEPT ![p].err = z.err, ![p].code = code,
                              ![p].body = IF code = 200 THEN "application/zip"
                                          ELSE IF code = 404 THEN "no files in path"
                                          ELSE "unable to zip content",
                              ![p].ret = IF code = 200
                                         THEN [kind |-> "zip", val |-> z.entries,
                                               n |-> z.n]
                                         ELSE NoResult]
    /\ pc' = [pc EXCEPT ![p] = "done"]
    /\ UNCHANGED <<refs, objs, remote, mu, op, committed, seen, pushes, handler>>

\* variant: a handler that takes the first checkout when the alias is
\* unknown
refreshRepoHandlerAnyAlias(p) ==
    /\ pc[p] = "refreshRepoHandler"
    /\ CallRefresh(p, IF op[p].repo \in DOMAIN HandlerCheckouts
                      THEN HandlerCheckouts[op[p].repo] ELSE "repoA", {})
    /\ UNCHANGED <<refs, objs, remote, mu, committed, pushes, handler>>

\* refreshRepoHandler, up to the call of Refresh
refreshRepoHandler(p) ==
    /\ pc[p] = "refreshRepoHandler"
    /\ IF op[p].repo \notin DOMAIN HandlerCheckouts
       THEN Respond(p, 404, "unknown repo") /\ UNCHANGED <<op, seen>>
       ELSE CallRefresh(p, HandlerCheckouts[op[p].repo], {})
    /\ UNCHANGED <<refs, objs, remote, mu, committed, pushes>>
    /\ handler' = [handler EXCEPT !.Checkouts = MapIndex(@, op[p].repo)]

\* refreshRepoHandler, from the return of Refresh
refreshRepoReturn(p) ==
    /\ pc[p] = "refreshRepoReturn"
    /\ IF loc[p].err # NilErr
       THEN Respond(p, 500, "unable to fetch remote content")
       ELSE Respond(p, 200, "OK")
    /\ seen' = [seen EXCEPT ![p].results = Append(@, loc[p].err)]
    /\ UNCHANGED <<refs, objs, remote, mu, op, committed, pushes, handler>>

\* variant: a loop that visits one checkout only
RefreshAllRangeFirstOnly == {"repoA"}

\* what range h.Checkouts iterates over
RefreshAllRange == DOMAIN HandlerCheckouts

\* variant: a loop that goes on after a failed Refresh
RefreshAllStopsNever(err) == FALSE

\* the loop of refreshAllRepoHandler returns at the first err != nil
RefreshAllStops(err) == err # NilErr

\* refreshAllRepoHandler, up to the first Refresh; the order of a range
\* over a map is not specified
refreshAllRepoHandler(p) ==
    /\ pc[p] = "refreshAllRepoHandler"
    /\ IF RefreshAllRange = {}
       THEN Respond(p, 200, "OK") /\ UNCHANGED <<op, seen>>
       ELSE \E a \in RefreshAllRange :
                CallRefresh(p, HandlerCheckouts[a],
                            {HandlerCheckouts[x] : x \in RefreshAllRange \ {a}})
    /\ UNCHANGED <<refs, objs, remote, mu, committed, pushes, handler>>

\* refreshAllRepoHandler, from the return of one Refresh: the error
\* response, the next Refresh, or OK after the last
refreshAllReturn(p) ==
    /\ pc[p] = "refreshAllReturn"
    /\ IF RefreshAllStops(loc[p].err)
       THEN /\ Respond(p, 500, "unable to refresh")
            /\ seen' = [seen EXCEPT ![p].results = Append(@, loc[p].err)]
            /\ UNCHANGED op
       ELSE IF loc[p].visit = {}
       THEN /\ Respond(p, 200, "OK")
            /\ seen' = [seen EXCEPT ![p].results = Append(@, loc[p].err)]
            /\ UNCHANGED op
       ELSE \E c \in loc[p].visit :
                /\ op' = [op EXCEPT ![p].co = c]
                /\ loc' = [loc EXCEPT ![p].fetchErr = NilErr, ![p].err = NilErr,
                                      ![p].adv = NoGraph, ![p].todo = {},
                                      ![p].visit = @ \ {c}]
                /\ seen' = [seen EXCEPT ![p].results = Append(@, loc[p].err),
                                        ![p].calls = Append(@, c),
                                        ![p].begin = committed[c]]
                /\ pc' = [pc EXCEPT ![p] = "Lock"]
    /\ UNCHANGED <<refs, objs, remote, mu, committed, pushes, handler>>

\* the event types github.ParseWebHook knows, of those delivered here
GithubEventTypes == {"ping", "push", "issues"}

\* variant: a payload accepted whatever its signature
ValidatePayloadAny(sig) == TRUE

\* github.ValidatePayload(req, p.Token) succeeds
ValidatePayload(sig) == sig = "valid"

\* github.ParseWebHook(hookType, body) succeeds
ParseWebHook(hookType, payload) ==
    hookType \in GithubEventTypes /\ payload # "malformed"

\* eventsToProcessor
eventsToProcessor == {"ping", "push"}

\* variant: the unknown repository is answered like the unhandled event
pushEventUnknown406(payload) ==
    IF payload = "norepo" THEN [code |-> 400, body |-> "no repository metadata set"]
    ELSE IF payload = "nourl" THEN [code |-> 400, body |-> "no repository SSH url set"]
    ELSE IF payload \notin DOMAIN CheckoutsByRepo
    THEN [code |-> 406, body |-> "cannot find checkout"]
    ELSE [code |-> 0, body |-> CheckoutsByRepo[payload]]

\* pushEvent up to the call of Refresh: the response, or (code 0) the
\* checkout to refresh
pushEvent(payload) ==
    IF payload = "norepo" THEN [code |-> 400, body |-> "no repository metadata set"]
    ELSE IF payload = "nourl" THEN [code |-> 400, body |-> "no repository SSH url set"]
    ELSE IF payload \notin DOMAIN CheckoutsByRepo
    THEN [code |-> 400, body |-> "cannot find checkout"]
    ELSE [code |-> 0, body |-> CheckoutsByRepo[payload]]

\* githubWebhook up to the processor's response or its call of Refresh
webhookDecision(o) ==
    IF o.hookType = "" THEN [code |-> 400, body |-> "could not find webhook type"]
    ELSE IF ~ValidatePayload(o.sig)
    THEN [code |-> 403, body |-> "unable to validate payload"]
    ELSE IF ~ParseWebHook(o.hookType, o.payload)
    THEN [code |-> 400, body |-> "cannot parse webhook"]
    ELSE IF o.hookType \notin eventsToProcessor
    THEN [code |-> 406, body |-> "cannot process event"]
    ELSE IF o.hookType = "ping" THEN [code |-> 200, body |-> "PONG"]
    ELSE pushEvent(o.payload)

\* the deliveries with which pushEvent reaches p.Checkouts[*event.Repo.SSHURL]
pushEventLooksUp(o) ==
    /\ o.hookType = "push"
    /\ ValidatePayload(o.sig)
    /\ ParseWebHook(o.hookType, o.payload)
    /\ o.payload \notin {"norepo", "nourl"}

\* githubWebhook, up to the response or the call of Refresh
githubWebhook(p) ==
    /\ pc[p] = "githubWebhook"
    /\ LET w == webhookDecision(op[p])
       IN  IF w.code # 0
           THEN Respond(p, w.code, w.body) /\ UNCHANGED <<op, seen>>
           ELSE CallRefresh(p, w.body, {})
    /\ UNCHANGED <<refs, objs, remote, mu, committed, pushes>>
    /\ handler' = IF pushEventLooksUp(op[p])
                  THEN [handler EXCEPT !.byRepo = MapIndex(@, op[p].payload)]
                  ELSE handler

\* pushEvent, from the return of Refresh
pushEventReturn(p) ==
    /\ pc[p] = "pushEventReturn"
    /\ IF loc[p].err # NilErr
       THEN Respond(p, 500, "cannot refresh repository")
       ELSE Respond(p, 200, "refreshed repository")
    /\ seen' = [seen EXCEPT ![p].results = Append(@, loc[p].err)]
    /\ UNCHANGED <<refs, objs, remote, mu, op, committed, pushes, handler>>

\* what the requests ask for
HttpRepos == {"repoA", "nope", ""}
HttpBranches == {"master", "blarg", ""}
HttpPaths == {<<>>, <<"m">>, <<"x">>, <<"a">>, <<"a", "/", "f">>}
HttpDirs == {<<>>, <<"a">>, <<"a", "/">>, <<"m">>, <<"x">>}
HookTypes == {"", "ping", "push", "issues", "bogus"}
Payloads == {"malformed", "norepo", "nourl", "git@github.com:org/repoA.git",
             "git@github.com:org/repoB.git", "git@github.com:org/other.git"}

\* the read handlers one at a time on every kind of argument, while p3
\* may refresh repoA
HttpRequestsOf(p) ==
    CASE p = "p1" ->
            {HttpRequest("getFileHandler", "GET", r, b, f) :
                r \in HttpRepos, b \in HttpBranches, f \in HttpPaths}
            \cup {HttpRequest("lsDirHandler", "GET", r, b, d) :
                r \in HttpRepos, b \in HttpBranches, d \in HttpDirs}
            \cup {HttpRequest("zipDirHandler", "GET", r, b, d) :
                r \in HttpRepos, b \in HttpBranches, d \in HttpDirs}
      [] OTHER -> {}

NextHTTP ==
    \/ \E b \in Branches : Push("repoA", b)
    \/ \E p \in Procs : \E o \in HttpRequestsOf(p) : ServeHTTP(p, o)
    \/ Call("p3", Request("Refresh", "repoA", "none", <<>>))
    \/ \E p \in Procs : getFileHandler(p)
    \/ \E p \in Procs : getFileContent(p)
    \/ \E p \in Procs : lsDirHandler(p)
    \/ \E p \in Procs : lsDirList(p)
    \/ \E p \in Procs : zipDirHandler(p)
    \/ \E p \in Procs : zipDirContent(p)
    \/ \E p \in Procs : Lock(p)
    \/ \E p \in Procs : LockEnter(p)
    \/ \E p \in Procs, net \in NetOutcomes : Fetch(p, net)
    \/ \E p \in Procs, b \in Branches : UpdateRef(p, b)
    \/ \E p \in Procs : Unlock(p)

SpecHTTP == Init /\ [][NextHTTP]_vars

\* the requests that refresh: p2 asks for one alias or for everything, p3
\* is GitHub delivering events
HookRequestsOf(p) ==
    CASE p = "p2" ->
            {HttpRequest("refreshRepoHandler", m, r, "", <<>>) :
                m \in {"GET", "POST"}, r \in {"repoA", "repoB", "nope"}}
            \cup {HttpRequest("refreshAllRepoHandler", "GET", "", "", <<>>)}
      [] p = "p3" ->
            {WebhookRequest(t, s, x) :
                t \in HookTypes, s \in {"valid", "invalid"}, x \in Payloads}
      [] OTHER -> {}

NextHook ==
    \/ \E c \in Checkouts, b \in Branches : Push(c, b)
    \/ \E p \in Procs : \E o \in HookRequestsOf(p) : ServeHTTP(p, o)
    \/ \E p \in Procs : refreshRepoHandler(p)
    \/ \E p \in Procs : refreshRepoReturn(p)
    \/ \E p \in Procs : refreshAllRepoHandler(p)
    \/ \E p \in Procs : refreshAllReturn(p)
    \/ \E p \in Procs : githubWebhook(p)
    \/ \E p \in Procs : pushEventReturn(p)
    \/ \E p \in Procs : Lock(p)
    \/ \E p \in Procs : LockEnter(p)
    \/ \E p \in Procs, net \in NetOutcomes : Fetch(p, net)
    \/ \E p \in Procs, b \in Branches : UpdateRef(p, b)
    \/ \E p \in Procs : Unlock(p)

SpecHook == Init /\ [][NextHook]_vars

(***************************************************************************)
(* The public endpoints and the sign-in.  A token is a record of the key   *)
(* that signed it, its algorithm and whether its time window is over.  The *)
(* server is configured with the private key                               *)
(* SigningKey for the sign-in and with its public half for the public      *)
(* endpoints.                                                              *)
(***************************************************************************)
SigningKey == "priv1"

\* pk.Public()
PublicOf(key) == IF key = "priv1" THEN "pub1" ELSE "pub2"

\* setupJWT: the key keyFunc hands to the middleware
JWTPublicKey == PublicOf(SigningKey)

Token(key, alg, expired) == [key |-> key, alg |-> alg, expired |-> expired]

\* a request without an Authorization header
NoToken == Token("none", "none", FALSE)

\* variant: a middleware with CredentialsOptional, which lets a request
\* without a token through
CheckJWTOptional(tok) ==
    \/ tok = NoToken
    \/ /\ PublicOf(tok.key) = JWTPublicKey
       /\ tok.alg = "RS256"
       /\ ~tok.expired

\* jwtmiddleware CheckJWT with SigningMethod RS256: the token is there, it
\* parses under the key of keyFunc, its algorithm is the configured one and
\* it is valid
CheckJWT(tok) ==
    /\ tok # NoToken
    /\ PublicOf(tok.key) = JWTPublicKey
    /\ tok.alg = "RS256"
    /\ ~tok.expired

PublicRequest(name, method, repo, branch, path, tok) ==
    [name |-> name, method |-> method, repo |-> repo, branch |-> branch,
     path |-> path, co |-> "none", token |-> tok]

\* publicRepoMiddleware: 404 unless the repository is configured public
publicRepoMiddleware(p) ==
    /\ pc[p] = "publicRepoMiddleware"
    /\ IF op[p].repo \notin DOMAIN handler.checkoutConfigs
       THEN Respond(p, 404, "")
       ELSE IF ~handler.checkoutConfigs[op[p].repo].Public
       THEN Respond(p, 404, "")
       ELSE /\ pc' = [pc EXCEPT ![p] = "jwtHandler"]
            /\ UNCHANGED loc
    /\ handler' = [handler EXCEPT !.checkoutConfigs = MapIndex(@, op[p].repo)]
    /\ UNCHANGED <<refs, objs, remote, mu, op, committed, seen, pushes>>

\* middleware.Handler: the ErrorHandler answers 401, otherwise the wrapped
\* handler runs
jwtHandler(p) ==
    /\ pc[p] = "jwtHandler"
    /\ IF CheckJWT(op[p].token)
       THEN /\ pc' = [pc EXCEPT ![p] = op[p].name]
            /\ UNCHANGED loc
       ELSE Respond(p, 401, "error during JWT")
    /\ UNCHANGED <<refs, objs, remote, mu, op, committed, seen, pushes, handler>>

\* a sign-in request: the basic-auth header it carries ("none", or
\* credentials that are the configured ones or are not)
SignInRequest(method, basicAuth) ==
    [name |-> "JWTSignIn", method |-> method, basicAuth |-> basicAuth, co |-> "none"]

\* setupJWTSigning: Auth compares with the configured user and password
Auth(basicAuth) == basicAuth = "good"

\* variant: a sign-in that signs for whoever sent a header
signInResponseAnyCredentials(hasAuth, authErr, accepted, signErr) ==
    IF ~hasAuth THEN [code |-> 403, body |-> "no basic auth information"]
    ELSE IF authErr THEN [code |-> 500, body |-> "unable to verify auth"]
    ELSE IF signErr THEN [code |-> 500, body |-> "unable to sign token"]
    ELSE [code |-> 200, body |-> "token"]

\* JWTSignIn.ServeHTTP: the response by what BasicAuth, Auth and
\* SignedString return
signInResponse(hasAuth, authErr, accepted, signErr) ==
    IF ~hasAuth THEN [code |-> 403, body |-> "no basic auth information"]
    ELSE IF authErr THEN [code |-> 500, body |-> "unable to verify auth"]
    ELSE IF ~accepted THEN [code |-> 403, body |-> "incorrect credentials"]
    ELSE IF signErr THEN [code |-> 500, body |-> "unable to sign token"]
    ELSE [code |-> 200, body |-> "token"]

\* JWTSignIn.ServeHTTP; whether Auth or SignedString fail is not in the
\* request
JWTSignIn(p, authErr, signErr) ==
    /\ pc[p] = "JWTSignIn"
    /\ LET hasAuth == op[p].basicAuth # "none"
           resp == signInResponse(hasAuth, authErr, Auth(op[p].basicAuth), signErr)
       IN  /\ loc' = [loc EXCEPT
                        ![p].code = resp.code, ![p].body = resp.body,
                        ![p].ret = IF resp.code = 200
                                   THEN [kind |-> "token",
                                         val |-> Token(SigningKey, "RS256", FALSE)]
                                   ELSE NoResult,
                        ![p].err = IF ~hasAuth THEN NilErr
                                   ELSE IF authErr THEN <<"auth">>
                                   ELSE IF Auth(op[p].basicAuth) /\ signErr THEN <<"sign">>
                                   ELSE NilErr]
           /\ pc' = [pc EXCEPT ![p] = "done"]
    /\ UNCHANGED <<refs, objs, remote, mu, op, committed, seen, pushes, handler>>

Tokens ==
    {NoToken, Token("priv1", "RS256", FALSE), Token("priv2", "RS256", FALSE),
     Token("priv1", "HS256", FALSE), Token("priv1", "RS256", TRUE)}

\* p1 reads, through the public routes with every kind of token or through
\* the plain routes; p2 refreshes or signs in; p3 is GitHub
PublicRequestsOf(p) ==
    CASE p = "p1" ->
            {PublicRequest("getFileHandler", "GET", r, "master", <<"m">>, t) :
                r \in {"repoA", "repoB", "nope"}, t \in Tokens}
            \cup {PublicRequest("getFileHandler", m, "repoA", "blarg", <<"m">>,
                                Token("priv1", "RS256", FALSE)) : m \in {"GET", "POST"}}
            \cup {PublicRequest(n, "GET", r, "master", <<"a">>, t) :
                n \in {"lsDirHandler", "zipDirHandler"},
                r \in {"repoA", "repoB", "nope"},
                t \in {NoToken, Token("priv1", "RS256", FALSE)}}
            \cup {HttpRequest(n, "GET", "nope", "master", <<"a">>) :
                n \in {"getFileHandler", "lsDirHandler", "zipDirHandler"}}
      [] p = "p2" ->
            {HttpRequest("refreshRepoHandler", m, r, "", <<>>) :
                m \in {"GET", "POST"}, r \in {"repoA", "nope"}}
            \cup {HttpRequest("refreshAllRepoHandler", "GET", "", "", <<>>)}
            \cup {SignInRequest("POST", a) : a \in {"none", "good", "bad"}}
            \cup {SignInRequest("GET", "good")}
      [] p = "p3" ->
            {WebhookRequest("push", "valid", x) :
                x \in {"git@github.com:org/repoA.git", "git@github.com:org/other.git"}}

NextPublic ==
    \/ Push("repoA", "master")
    \/ \E p \in Procs : \E o \in PublicRequestsOf(p) : ServeHTTP(p, o)
    \/ \E p \in Procs : publicRepoMiddleware(p)
    \/ \E p \in Procs : jwtHandler(p)
    \/ \E p \in Procs : getFileHandler(p)
    \/ \E p \in Procs : getFileContent(p)
    \/ \E p \in Procs : lsDirHandler(p)
    \/ \E p \in Procs : lsDirList(p)
    \/ \E p \in Procs : zipDirHandler(p)
    \/ \E p \in Procs : zipDirContent(p)
    \/ \E p \in Procs : refreshRepoHandler(p)
    \/ \E p \in Procs : refreshRepoReturn(p)
    \/ \E p \in Procs : refreshAllRepoHandler(p)
    \/ \E p \in Procs : refreshAllReturn(p)
    \/ \E p \in Procs : githubWebhook(p)
    \/ \E p \in Procs : pushEventReturn(p)
    \/ \E p \in Procs, authErr \in BOOLEAN, signErr \in BOOLEAN : JWTSignIn(p, authErr, signErr)
    \/ \E p \in Procs : Lock(p)
    \/ \E p \in Procs : LockEnter(p)
    \/ \E p \in Procs, net \in NetOutcomes : Fetch(p, net)
    \/ \E p \in Procs, b \in Branches : UpdateRef(p, b)
    \/ \E p \in Procs : Unlock(p)

SpecPublic == Init /\ [][NextPublic]_vars

(***************************************************************************)
(* Startup: Main calls NewHandler on the configured repositories, one      *)
(* entry after the other, and serves only with the handler it returns.     *)
(* URLs, aliases and directory names are strings of characters here.       *)
(***************************************************************************)
\* the entries a configuration may hold
MaxRepos == 2

\* strings.TrimSpace
TrimSpace(s) == Trim(s, " ")

AllowedDirChars ==
    {"a", "b", "c", "d", "e", "f", "g", "h", "i", "j", "k", "l", "m", "n", "o", "p",
     "q", "r", "s", "t", "u", "v", "w", "x", "y", "z", "A", "B", "C", "D", "E", "F",
     "G", "H", "I", "J", "K", "L", "M", "N", "O", "P", "Q", "R", "S", "T", "U", "V",
     "W", "X", "Y", "Z", "1", "2", "3", "4", "5", "6", "7", "8", "9", "0", "-"}

\* sanitizeDir
sanitizeDir(s) == [i \in 1..Len(s) |-> IF s[i] \in AllowedDirChars THEN s[i] ELSE "_"]

\* variant: the key is the URL whatever its shape
getRepoKeyWholeURL(repo) == repo

\* getRepoKey
getRepoKey(repo) ==
    LET parts == Split(repo, "/")
    IN  IF Len(parts) # 2 THEN repo
        ELSE LET parts2 == Split(parts[2], ".")
             IN  IF Len(parts2) # 2 THEN repo ELSE parts2[1]

\* NewHandler: repoKey := repo.Alias; if repoKey == "" { repoKey = getRepoKey(...) }
repoKey(alias, trimmedRepoURL) ==
    IF alias = <<>> THEN getRepoKey(trimmedRepoURL) ELSE alias

\* cfg.DataDirectory
DataDirectory == <<"/", "d">>

\* the name ioutil.TempDir(dataDir, "gitdb_repo_"+sanitizeDir(url)) tries
\* with the random suffix sfx
TempDirName(dataDir, url, sfx) ==
    dataDir \o <<"/">> \o <<"g", "i", "t", "d", "b", "_", "r", "e", "p", "o", "_">> \o sanitizeDir(url) \o sfx

\* the random suffixes TempDir may draw; NoSuffix is TempDir failing
Suffixes == {<<"1">>, <<"2">>}
NoSuffix == <<>>

\* variant: a TempDir that takes a name that exists
TempDirTakesAny(fs, name) == TRUE

\* ioutil.TempDir creates the directory with os.Mkdir, which fails on a name
\* that exists; TempDir then draws another suffix
TempDirTakes(fs, name) == name \notin fs

\* variant: a loop that skips an entry it cannot clone
EntryErrorSkipsClone(trimmedRepoURL, tempDirErr, authErr, cloneErr) ==
    IF trimmedRepoURL = <<>> THEN "unable to find URL for repo index"
    ELSE IF tempDirErr THEN "unable to make temp dir"
    ELSE IF authErr THEN "unable to load private key"
    ELSE ""

\* NewHandler: the error one pass of the loop returns with, "" for none
EntryError(trimmedRepoURL, tempDirErr, authErr, cloneErr) ==
    IF trimmedRepoURL = <<>> THEN "unable to find URL for repo index"
    ELSE IF tempDirErr THEN "unable to make temp dir"
    ELSE IF authErr THEN "unable to load private key"
    ELSE IF cloneErr THEN "unable to clone repo"
    ELSE ""

EmptyMap == [k \in {} |-> <<>>]

\* m[k] = v
MapStore(m, k, v) == [x \in DOMAIN m \cup {k} |-> IF x = k THEN v ELSE m[x]]

\* Main before NewHandler: the configuration and what dataDir holds
StartupHandler(cfg, fs) ==
    [phase |-> "startup", cfg |-> cfg, idx |-> 0, fs |-> fs, log |-> <<>>,
     Checkouts |-> EmptyMap, checkoutConfigs |-> EmptyMap, byRepo |-> EmptyMap]

\* one pass of the loop of NewHandler over cfg.Repos; sfx, authErr and
\* cloneErr are what TempDir, getAuthMethod and Clone come back with
NewHandlerRepo(sfx, authErr, cloneErr) ==
    /\ handler.phase = "startup"
    /\ handler.idx < Len(handler.cfg)
    /\ LET repo == handler.cfg[handler.idx + 1]
           trimmedRepoURL == TrimSpace(repo.URL)
           cloneInto == TempDirName(DataDirectory, trimmedRepoURL, sfx)
           made == trimmedRepoURL # <<>> /\ sfx # NoSuffix
           err == EntryError(trimmedRepoURL, sfx = NoSuffix, authErr, cloneErr)
           key == repoKey(repo.Alias, trimmedRepoURL)
           co == [id |-> handler.idx + 1, absPath |-> cloneInto,
                  remoteURL |-> trimmedRepoURL]
           cloned == made /\ ~authErr /\ ~cloneErr
           entry == [err |-> err, cloned |-> cloned,
                     key |-> IF err = "" THEN key ELSE <<>>,
                     into |-> IF made THEN cloneInto ELSE <<>>,
                     fresh |-> made /\ cloneInto \notin handler.fs]
       IN  /\ sfx # NoSuffix => TempDirTakes(handler.fs, cloneInto)
           /\ handler' =
                IF err # ""
                THEN [handler EXCEPT !.phase = "failed",
                                     !.fs = IF made THEN @ \cup {cloneInto} ELSE @,
                                     !.log = Append(@, entry),
                                     !.Checkouts = EmptyMap,
                                     !.checkoutConfigs = EmptyMap]
                ELSE [handler EXCEPT !.idx = @ + 1,
                                     !.fs = @ \cup {cloneInto},
                                     !.log = Append(@, entry),
                                     !.Checkouts = MapStore(@, key, co),
                                     !.checkoutConfigs = MapStore(@, key, repo)]
    /\ UNCHANGED <<refs, objs, remote, mu, pc, op, loc, committed, seen, pushes>>

\* NewHandler returns the CheckoutHandler after the last entry
NewHandlerReturn ==
    /\ handler.phase = "startup"
    /\ handler.idx = Len(handler.cfg)
    /\ handler' = [handler EXCEPT !.phase = "constructed"]
    /\ UNCHANGED <<refs, objs, remote, mu, pc, op, loc, committed, seen, pushes>>

\* the maps CheckoutsByRepo may return: one checkout per remote URL,
\* whichever the range over the map visits last
CheckoutsByRepoOf(m) ==
    LET urls == {m[k].remoteURL : k \in DOMAIN m}
    IN  {byURL \in [urls -> {m[k] : k \in DOMAIN m}] :
            \A u \in urls : byURL[u].remoteURL = u}

\* Main after NewHandler: github.Setup takes CheckoutsByRepo, the server
\* is set up and serves
Setup ==
    /\ handler.phase = "constructed"
    /\ \E byURL \in CheckoutsByRepoOf(handler.Checkouts) :
          handler' = [handler EXCEPT !.phase = "serving", !.byRepo = byURL]
    /\ UNCHANGED <<refs, objs, remote, mu, pc, op, loc, committed, seen, pushes>>

\* the URLs, aliases and entries of the configurations
ConfigURLs ==
    {<<>>, <<" ">>, <<"o", "/", "a", ".", "g">>, <<" ">> \o <<"o", "/", "a", ".", "g">>, <<"h", "/">> \o <<"o", "/", "a", ".", "g">>,
     <<"o", "/", "a", ".", "b", ".", "g">>, <<"o", "a", ".", "g">>, <<"h", ".", "c", "/", "a", ".", "g">>}
ConfigAliases == {<<>>, <<"x">>}
ConfigEntries ==
    {[URL |-> u, Alias |-> a, Public |-> a # <<>>] : u \in ConfigURLs, a \in ConfigAliases}
Configs == UNION {[1..n -> ConfigEntries] : n \in 0..MaxRepos}

\* a directory an earlier run left in dataDir
Leftover == TempDirName(DataDirectory, <<"o", "/", "a", ".", "g">>, <<"1">>)

InitStartup ==
    /\ InitStore
    /\ \E cfg \in Configs, fs \in {{}, {Leftover}} : handler = StartupHandler(cfg, fs)

\* once the server serves, p2 signs in
NextStartup ==
    \/ \E sfx \in Suffixes \cup {NoSuffix}, authErr \in BOOLEAN, cloneErr \in BOOLEAN :
          NewHandlerRepo(sfx, authErr, cloneErr)
    \/ NewHandlerReturn
    \/ Setup
    \/ \E a \in {"none", "good", "bad"} : ServeHTTP("p2", SignInRequest("POST", a))
    \/ \E authErr \in BOOLEAN, signErr \in BOOLEAN : JWTSignIn("p2", authErr, signErr)

SpecStartup == InitStartup /\ [][NextStartup]_vars

(***************************************************************************)
(* GetFile read by read: the blob is copied into the buffer one Read of    *)
(* io.Copy after the other, and the caller consumes what GetFile returned. *)
(* loc[p].buf is the bytes.Buffer, loc[p].got what the caller has read,    *)
(* loc[p].late whether the object store was read without the lock, and     *)
(* loc[p].cancelled whether the context of the call has been cancelled.    *)
(***************************************************************************)
\* the Reads it takes to copy a blob
MaxChunks == 2

BlobSize(blob) == MaxChunks

\* what the n-th Read of a blob yields
Chunk(blob, n) == <<blob, n>>

\* variant: a copy that returns after its first Read
CopyDoneAfterFirst(read, size) == read >= 1

\* readerWriterTo.WriteTo: io.Copy reads until the reader is at its end
CopyDone(read, size) == read = size

\* variant: GetFile hands the handle on the blob to its caller
GetFileResultHandle(handle, buffer) == handle

\* GetFile: return &buf, nil
GetFileResult(handle, buffer) == buffer

\* GetFile from the Reference to the handle fileContent returns
GetFileOpen(p) ==
    /\ pc[p] = "GetFile"
    /\ LET c == op[p].co
           g == GetFileLocked(refs[c], objs[c], op[p].branch, op[p].path)
       IN  IF g.err # NilErr
           THEN /\ loc' = [loc EXCEPT ![p].r = g.r, ![p].err = g.err, ![p].ret = g.ret]
                /\ pc' = [pc EXCEPT ![p] = "RUnlock"]
           ELSE /\ loc' = [loc EXCEPT ![p].r = g.r, ![p].f = g.ret.val]
                /\ pc' = [pc EXCEPT ![p] = "WriteTo"]
    /\ UNCHANGED <<refs, objs, remote, mu, op, committed, seen, pushes, handler>>

\* one Read of f.WriteTo(&buf); after the last, GetFile is about to return
WriteTo(p) ==
    /\ pc[p] = "WriteTo"
    /\ LET blob == loc[p].f
           buf == Append(loc[p].buf, Chunk(blob, Len(loc[p].buf) + 1))
           held == p \in mu[op[p].co].readers
       IN  IF CopyDone(Len(buf), BlobSize(blob))
           THEN /\ loc' = [loc EXCEPT
                             ![p].buf = buf, ![p].late = @ \/ ~held,
                             ![p].err = NilErr,
                             ![p].ret = GetFileResult([kind |-> "handle", val |-> blob],
                                                      [kind |-> "buffer", val |-> buf])]
                /\ pc' = [pc EXCEPT ![p] = "RUnlock"]
           ELSE /\ loc' = [loc EXCEPT ![p].buf = buf, ![p].late = @ \/ ~held]
                /\ pc' = [pc EXCEPT ![p] = "WriteTo"]
    /\ UNCHANGED <<refs, objs, remote, mu, op, committed, seen, pushes, handler>>

\* the caller reads on from what GetFile returned: a buffer yields what it
\* holds, a handle reads the object store
Consume(p) ==
    /\ pc[p] = "done"
    /\ op[p].name = "GetFile"
    /\ loc[p].ret # NoResult
    /\ LET n == Len(loc[p].got) + 1
       IN  IF loc[p].ret.kind = "buffer"
           THEN /\ n <= Len(loc[p].ret.val)
                /\ loc' = [loc EXCEPT ![p].got = Append(@, loc[p].ret.val[n])]
           ELSE /\ n <= BlobSize(loc[p].ret.val)
                /\ loc' = [loc EXCEPT
                             ![p].got = Append(@, Chunk(loc[p].ret.val, n)),
                             ![p].late = @ \/ p \notin mu[op[p].co].readers]
    /\ UNCHANGED <<refs, objs, remote, mu, pc, op, committed, seen, pushes, handler>>

\* p is in the locked section of a read
Walking(p) ==
    pc[p] \in {"GetFile", "WriteTo", "LsFiles", "LsDir", "ZipContent", "ZipLoop"}

\* the context of the read is cancelled while the read is under way
Cancel(p) ==
    /\ Walking(p)
    /\ ~loc[p].cancelled
    /\ loc' = [loc EXCEPT ![p].cancelled = TRUE]
    /\ UNCHANGED <<refs, objs, remote, mu, pc, op, committed, seen, pushes, handler>>

StreamRequestsOf(p) ==
    CASE p = "p1" ->
            {Request("GetFile", "repoA", b, f) :
                b \in {"master", "blarg"}, f \in {<<"m">>, <<"x">>}}
            \cup {Request("LsFiles", "repoA", "master", <<>>),
                  Request("LsDir", "repoA", "master", <<"a">>),
                  Request("ZipContent", "repoA", "master", <<"a", "/">>)}
      [] p = "p3" -> {Request("Refresh", "repoA", "none", <<>>)}
      [] OTHER -> {}

NextStream ==
    \/ \E b \in Branches : Push("repoA", b)
    \/ \E p \in Procs : \E o \in StreamRequestsOf(p) : Call(p, o)
    \/ \E p \in Procs : RLock(p)
    \/ \E p \in Procs : GetFileOpen(p)
    \/ \E p \in Procs : WriteTo(p)
    \/ \E p \in Procs : LsFiles(p)
    \/ \E p \in Procs : LsDir(p)
    \/ \E p \in Procs : ZipLsFiles(p)
    \/ \E p \in Procs : ZipContent(p)
    \/ \E p \in Procs : RUnlock(p)
    \/ \E p \in Procs : Consume(p)
    \/ \E p \in Procs : Cancel(p)
    \/ \E p \in Procs : Lock(p)
    \/ \E p \in Procs : LockEnter(p)
    \/ \E p \in Procs, net \in NetOutcomes : Fetch(p, net)
    \/ \E p \in Procs, b \in Branches : UpdateRef(p, b)
    \/ \E p \in Procs : Unlock(p)

SpecStream == Init /\ [][NextStream]_vars



(***************************************************************************)
(* The lock on every path out of an operation: the reads fail on an        *)
(* unknown branch, a missing file, a missing directory and a writer that   *)
(* refuses the archive; Refresh fails in its fetch.                        *)
(***************************************************************************)
\* ZipContent when w.Create or wt.WriteTo fails at the entry after the first
\* k: it returns numFiles = k and the wrapped error
ZipWriteError(p, k) ==
    /\ pc[p] = "ZipLoop"
    /\ LET c == op[p].co
           z == ZipContentLocked(refs[c], objs[c], loc[p].files, loc[p].lsErr,
                                 op[p].path, op[p].branch)
       IN  /\ z.err = NilErr
           /\ k < z.ret.n
           /\ loc' = [loc EXCEPT ![p].r2 = z.r,
                                 ![p].err = Wrap("unable to write file named",
                                                 <<"write error">>),
                                 ![p].ret = [kind |-> "zip", n |-> k,
                                             val |-> SubSeq(z.ret.val, 1, k)]]
    /\ pc' = [pc EXCEPT ![p] = "RUnlock"]
    /\ UNCHANGED <<refs, objs, remote, mu, op, committed, seen, pushes, handler>>

\* p1 reads repoA with arguments that fail and that succeed, p2 packs an
\* archive of repoA, refreshes it or reads repoB, p3 refreshes repoA
LockRequestsOf(p) ==
    CASE p = "p1" ->
            {Request("GetFile", "repoA", "blarg", <<"m">>),
             Request("GetFile", "repoA", "master", <<"x">>),
             Request("LsDir", "repoA", "master", <<"x">>),
             Request("LsFiles", "repoA", "master", <<>>),
             Request("ZipContent", "repoA", "master", <<"a", "/">>)}
      [] p = "p2" ->
            {Request("ZipContent", "repoA", "staging", <<>>),
             Request("Refresh", "repoA", "none", <<>>),
             Request("GetFile", "repoB", "master", <<"m">>)}
      [] p = "p3" ->
            {Request("Refresh", "repoA", "none", <<>>)}

NextLocks ==
    \/ \E b \in Branches : Push("repoA", b)
    \/ \E p \in Procs : \E o \in LockRequestsOf(p) : Call(p, o)
    \/ Step
    \/ \E p \in Procs, k \in 0..1 : ZipWriteError(p, k)

SpecLocks == Init /\ [][NextLocks]_vars

\* the steps goroutine p takes once it has the lock, down to its return
Running(p) ==
    \/ GetFile(p) \/ LsFiles(p) \/ LsDir(p) \/ ZipLsFiles(p) \/ ZipContent(p)
    \/ RUnlock(p)
    \/ \E net \in NetOutcomes : Fetch(p, net)
    \/ \E b \in Branches : UpdateRef(p, b)
    \/ Unlock(p)

\* the scheduler runs every goroutine that can run; a reader blocked by a
\* writer is admitted when that writer unlocks, before the next writer, and
\* sync.Mutex hands the writers' mutex to a starving waiter, so a goroutine
\* that can take the lock again and again does take it; a writer that holds
\* the writers' mutex enters when the readers inside have left
Fairness ==
    \A p \in Procs :
        /\ WF_vars(Running(p))
        /\ SF_vars(RLock(p))
        /\ SF_vars(Lock(p))
        /\ WF_vars(LockEnter(p))

\* the arrivals: p1 reads repoA, p2 packs an archive of repoA or refreshes
\* it, p3 refreshes it, each at any moment
LiveRequestsOf(p) ==
    CASE p = "p1" ->
            {Request("GetFile", "repoA", "master", <<"m">>),
             Request("LsFiles", "repoA", "master", <<>>),
             Request("LsDir", "repoA", "blarg", <<"a">>)}
      [] p = "p2" ->
            {Request("ZipContent", "repoA", "staging", <<"g">>),
             Request("Refresh", "repoA", "none", <<>>)}
      [] p = "p3" ->
            {Request("Refresh", "repoA", "none", <<>>)}

NextLive ==
    \/ Push("repoA", "master")
    \/ \E p \in Procs : \E o \in LiveRequestsOf(p) : Call(p, o)
    \/ Step
    \/ \E p \in Procs : ZipWriteError(p, 0)

SpecLive == Init /\ [][NextLive]_vars /\ Fairness


(***************************************************************************)
(* Main up to the tracer: Registry.New, the datadog constructor and its    *)
(* configuration from the environment.  A string of the environment is the *)
(* sequence of its pieces, "=" a piece of its own.  Here handler holds how  *)
(* far Main is, its inputs (the tracer name, os.Environ and the socket     *)
(* files that exist) and what the constructor returned.                    *)
(***************************************************************************)
MaxEnv == 2

RECURSIVE SplitN(_, _, _)
\* strings.SplitN(s, sep, n) for n > 0: at most n substrings, the last one
\* the unsplit remainder
SplitN(s, sep, n) ==
    IF n = 1 \/ \A i \in 1..Len(s) : s[i] # sep THEN <<s>>
    ELSE LET i == CHOOSE i \in 1..Len(s) : s[i] = sep /\ \A j \in 1..(i - 1) : s[j] # sep
         IN  <<SubSeq(s, 1, i - 1)>> \o SplitN(SubSeq(s, i + 1, Len(s)), sep, n - 1)

RECURSIVE EnvMap(_)
\* envToStruct: the map m after the loop over env
EnvMap(env) ==
    IF env = <<>> THEN EmptyMap
    ELSE LET m == EnvMap(SubSeq(env, 1, Len(env) - 1))
             p == SplitN(env[Len(env)], "=", 1)
         IN  IF Len(p) # 2 THEN m ELSE MapStore(m, p[1], p[2])

\* json.Unmarshal of the marshalled map: the string field tagged tag
TaggedField(m, tag) == IF tag \in DOMAIN m THEN m[tag] ELSE <<>>

\* envToStruct(env, &cfg) on a zero config
envToStruct(env) ==
    LET m == EnvMap(env)
    IN  [err |-> NilErr,
         cfg |-> [ApmFile |-> TaggedField(m, <<"DD_APM_RECEIVER_SOCKET">>),
                  StatsFile |-> TaggedField(m, <<"DD_DOGSTATSD_SOCKET">>)]]

ddApmFile == <<"/var/run/datadog/apm.socket">>

\* (*config).apmFile
apmFile(c) == IF c.ApmFile = <<>> THEN ddApmFile ELSE c.ApmFile

\* fileExists, files the regular files and sockets there are
fileExists(files, filename) == filename \in files

\* datadog.NewTracer: the tracer ("nil" for a nil tracing.Tracing) and the
\* error
NewTracer(env, files) ==
    LET e == envToStruct(env)
    IN  IF e.err # NilErr
        THEN [tracer |-> "nil", err |-> Wrap("unable to convert env to config", e.err)]
        ELSE IF ~fileExists(files, apmFile(e.cfg))
        THEN [tracer |-> "nil", err |-> NilErr]
        ELSE [tracer |-> "datadog.Tracing", err |-> NilErr]

\* the Constructors of the Registry of Main
Constructors == {"datadog"}

\* (*Registry).New
RegistryNew(name, env, files) ==
    IF name = "" THEN [tracer |-> "Noop", err |-> NilErr]
    ELSE IF name \notin Constructors
    THEN [tracer |-> "nil", err |-> <<"unable to find tracer named">>]
    ELSE LET r == NewTracer(env, files)
         IN  IF r.err # NilErr
             THEN [tracer |-> "nil", err |-> Wrap("unable to create registry", r.err)]
             ELSE r

\* Main: rootTracer, err := m.tracers.New(m.config.Tracer, ...)
TracersNew ==
    /\ handler.phase = "main"
    /\ LET r == RegistryNew(handler.name, handler.env, handler.files)
       IN  handler' = [handler EXCEPT !.phase = "traced", !.tracer = r.tracer,
                                      !.err = r.err,
                                      !.cfg = IF handler.name = "datadog"
                                              THEN envToStruct(handler.env).cfg ELSE @]
    /\ UNCHANGED <<refs, objs, remote, mu, pc, op, loc, committed, seen, pushes>>

\* Main from the error check to NewHandler: osExit(1) on an error of New or
\* of loadRepoConfig, else WrapGitProtocols(rootTracer) and
\* rootTracer.DynamicFields(), a method call that panics on a nil interface
MainWrapGitProtocols(loadErr) ==
    /\ handler.phase = "traced"
    /\ handler' =
          IF handler.err # NilErr \/ loadErr
          THEN [handler EXCEPT !.phase = "exited"]
          ELSE [handler EXCEPT !.wrapped = handler.tracer,
                               !.phase = IF handler.tracer = "nil" THEN "panicked"
                                         ELSE "NewHandler"]
    /\ UNCHANGED <<refs, objs, remote, mu, pc, op, loc, committed, seen, pushes>>

\* the entries of the environment
EnvEntries ==
    {<<"DD_APM_RECEIVER_SOCKET", "=", "/var/run/datadog/apm.socket">>,
     <<"DD_APM_RECEIVER_SOCKET", "=", "/custom/apm.socket">>,
     <<"DD_DOGSTATSD_SOCKET", "=", "/custom/dsd.socket">>,
     <<"DD_APM_RECEIVER_ADDR", "=", "localhost:8126">>,
     <<"OPTS", "=", "a", "=", "b">>,
     <<"INVALID_ENV">>}
Environments == UNION {[1..n -> EnvEntries] : n \in 0..MaxEnv}
TracerNames == {"", "datadog", "jaeger"}
SocketFiles == SUBSET {ddApmFile, <<"/custom/apm.socket">>}

InitTracer ==
    /\ InitStore
    /\ \E name \in TracerNames, env \in Environments, files \in SocketFiles :
          handler = [phase |-> "main", name |-> name, env |-> env, files |-> files,
                     cfg |-> [ApmFile |-> <<>>, StatsFile |-> <<>>],
                     tracer |-> "nil", err |-> NilErr, wrapped |-> "none"]

NextTracer ==
    \/ TracersNew
    \/ \E loadErr \in BOOLEAN : MainWrapGitProtocols(loadErr)

SpecTracer == InitTracer /\ [][NextTracer]_vars




(***************************************************************************)
(* Properties.                                                             *)
(***************************************************************************)
IsRead(p) == op[p].name \in ReadOps
IsRefresh(p) == op[p].name = "Refresh"

\* p is between RLock returning and RUnlock
InRead(p) == pc[p] \in {"GetFile", "LsFiles", "LsDir", "ZipContent", "ZipLoop", "RUnlock"}

\* p is between Lock returning and Unlock: its fetch
InRefresh(p) == pc[p] \in {"Fetch", "UpdateRefs", "Fetched"}

\* p has resolved the branch (in ZipContent: for the first time)
Resolved(p) ==
    \/ pc[p] \in {"ZipLoop", "RUnlock"}
    \/ pc[p] = "done" /\ IsRead(p)

\* the fetch of p failed: it neither stored a pack nor found nothing to do
FetchFailed(p) ==
    /\ loc[p].fetchErr # NilErr
    /\ ~ErrorsIs(loc[p].fetchErr, "NoErrAlreadyUpToDate")

\* C1: while a Refresh is inside its locked section on a checkout, no read
\* and no other Refresh is inside its locked section on that checkout.
C1_RefreshExcludesAll ==
    \A p \in Procs : IsRefresh(p) /\ InRefresh(p) =>
        \A q \in Procs \ {p} : op[q].co = op[p].co => ~InRead(q) /\ ~InRefresh(q)

\* C1 happens: a Refresh is moving the refs of repoA while a read and a
\* second Refresh on repoA wait for the lock.
C1_Witness ==
    /\ pc["p3"] = "UpdateRefs" /\ op["p3"].co = "repoA"
    /\ pc["p2"] = "Lock" /\ op["p2"].co = "repoA"
    /\ pc["p1"] = "RLock" /\ op["p1"].co = "repoA"

\* C2: everything one read obtains comes from one version of the object
\* graph, the one committed when it took the lock: the ref it resolved
\* (both times, in ZipContent), the commit, the file list and the contents.
C2_ReadSeesOneVersion ==
    \A p \in Procs : IsRead(p) /\ Resolved(p) /\ op[p].branch \in Branches =>
        LET h == seen[p].lock[op[p].branch]
        IN  /\ loc[p].r = h
            /\ h \in seen[p].lockObjs
            /\ op[p].name \in {"LsFiles", "ZipContent"} /\ pc[p] # "LsFiles" =>
                 /\ loc[p].lsErr = NilErr
                 /\ op[p].name = "ZipContent" => loc[p].files = CommitFileNames(h)
            /\ op[p].name = "ZipContent" /\ pc[p] \in {"RUnlock", "done"} =>
                 /\ loc[p].r2 = h
                 /\ loc[p].err = NilErr
                 /\ \A i \in 1..Len(loc[p].ret.val) :
                      \E f \in DOMAIN CommitFiles(h) :
                          /\ loc[p].ret.val[i].content = CommitFiles(h)[f]
                          /\ \E j \in 1..Len(loc[p].files) : loc[p].files[j] = f
            /\ op[p].name = "LsFiles" /\ pc[p] \in {"RUnlock", "done"} =>
                 /\ loc[p].ret.kind = "names"
                 /\ loc[p].ret.val = CommitFileNames(h)

\* C2 happens: ZipContent is between its file list and its second
\* resolution while a Refresh that has something to fetch waits for it.
C2_Witness ==
    /\ pc["p1"] = "ZipLoop"
    /\ pc["p3"] = "LockWait" /\ op["p3"].co = "repoA"
    /\ remote["repoA"]["master"] # refs["repoA"]["master"]

\* g1 is at least as new as g2: every branch where g2 or one push later
NotOlder(g1, g2) == \A b \in Branches : g1[b] = g2[b] \/ g1[b] = NextCommit(g2[b])
                                            \/ g1[b] = NextCommit(NextCommit(g2[b]))

\* C3 as stated: a read that is called before a Refresh completes sees the
\* graph committed when it was called.
C3_ReadSeesGraphAtCall ==
    \A p \in Procs : IsRead(p) /\ Resolved(p) /\ op[p].branch \in Branches =>
        loc[p].r = seen[p].begin[op[p].branch]

\* C3 amended: a read that has taken its shared lock before a Refresh
\* completes sees the pre-refresh graph for as long as it holds the lock
\* (no ref moves and no Refresh completes meanwhile), and the graph it sees
\* is never older than the one committed when it was called.
C3_ReadSeesGraphAtLock ==
    \A p \in Procs : IsRead(p) /\ (InRead(p) \/ pc[p] = "done") =>
        /\ InRead(p) => /\ refs[op[p].co] = seen[p].lock
                        /\ committed[op[p].co] = seen[p].lock
        /\ Resolved(p) /\ op[p].branch \in Branches =>
              loc[p].r = seen[p].lock[op[p].branch]
        /\ NotOlder(seen[p].lock, seen[p].begin)

\* C3 happens: a read called before a Refresh completed has waited for it
\* and resolved the branch to the commit that Refresh brought.
C3_Witness ==
    /\ pc["p1"] = "done" /\ op["p1"].name = "GetFile" /\ op["p1"].branch = "master"
    /\ seen["p1"].begin["master"] = "m1"
    /\ seen["p1"].lock["master"] = "m2"
    /\ loc["p1"].r = "m2"

\* C4: Refresh calls on one checkout are serialized: no two are inside the
\* locked section together, a fetch starts from the refs the previous
\* Refresh left, and a fetch that finds the remote where the local refs
\* already are changes nothing and makes Refresh return nil.
C4_RefreshSerialized ==
    \A p \in Procs : IsRefresh(p) =>
        /\ InRefresh(p) =>
              \A q \in Procs \ {p} : IsRefresh(q) /\ op[q].co = op[p].co => ~InRefresh(q)
        /\ pc[p] = "Fetch" => refs[op[p].co] = committed[op[p].co]
        /\ pc[p] \in {"Fetched", "done"} /\ ~FetchFailed(p)
             /\ ~NeedsUpdate(seen[p].lock, seen[p].lockRemote) =>
              /\ ErrorsIs(loc[p].fetchErr, "NoErrAlreadyUpToDate")
              /\ pc[p] = "Fetched" => refs[op[p].co] = seen[p].lock
              /\ pc[p] = "done" => loc[p].err = NilErr

\* C4 happens: a second Refresh waited for the first, which fetched the
\* push, and then found nothing to do.
C4_Witness ==
    /\ pc["p3"] = "done" /\ op["p3"].co = "repoA" /\ loc["p3"].fetchErr = NilErr
    /\ loc["p3"].adv["master"] = "m2"
    /\ pc["p2"] = "done" /\ op["p2"].name = "Refresh"
    /\ seen["p2"].lock["master"] = "m2"
    /\ ErrorsIs(loc["p2"].fetchErr, "NoErrAlreadyUpToDate")
    /\ loc["p2"].err = NilErr


\* reads of the store <<refsC, objsC>> give what is committed in graph: for
\* every branch the file list of its commit, for every file of it the
\* bytes committed, and an error for a file only other commits have
ReadsAsAt(refsC, objsC, graph) ==
    \A b \in Branches :
        LET ls == lsFilesNoLock(refsC, objsC, b)
            here == DOMAIN CommitFiles(graph[b])
            elsewhere == UNION {DOMAIN CommitFiles(h) : h \in Commits} \ here
        IN  /\ ls.err = NilErr
            /\ ls.files = CommitFileNames(graph[b])
            /\ \A f \in here :
                  LET g == GetFileLocked(refsC, objsC, b, f)
                  IN  g.err = NilErr /\ g.ret.val = CommitFiles(graph[b])[f]
            /\ \A f \in elsewhere : GetFileLocked(refsC, objsC, b, f).err # NilErr

\* p returns from Refresh in this step
RefreshReturns(p) == IsRefresh(p) /\ pc[p] = "Fetched" /\ pc'[p] = "done"

\* C5: a Refresh whose fetch failed or was cancelled returns an error, has
\* released the lock, and leaves refs and object store as they were when it
\* took the lock: reads give what they gave before.
C5_FailedRefreshChangesNothing ==
    [][\A p \in Procs : RefreshReturns(p) /\ FetchFailed(p) =>
          /\ loc'[p].err # NilErr
          /\ mu'[op[p].co].w = None /\ ~mu'[op[p].co].active
          /\ refs'[op[p].co] = seen[p].lock
          /\ objs'[op[p].co] = seen[p].lockObjs
          /\ ReadsAsAt(refs'[op[p].co], objs'[op[p].co], seen[p].lock)
      ]_vars

\* C5 happens: with a push waiting to be fetched, one Refresh of repoA was
\* cancelled and another met a network failure.
C5_Witness ==
    /\ pc["p3"] = "done" /\ op["p3"].co = "repoA"
    /\ loc["p3"].fetchErr = <<"context canceled">>
    /\ NeedsUpdate(seen["p3"].lock, seen["p3"].lockRemote)
    /\ pc["p2"] = "done" /\ op["p2"].name = "Refresh"
    /\ loc["p2"].fetchErr = <<"network failure">>
    /\ loc["p2"].err # NilErr /\ loc["p3"].err # NilErr
    /\ mu["repoA"].w = None

\* C6: a Refresh that the network lets through returns nil and leaves the
\* checkout where the remote was; when the remote was already where the
\* local refs were it changes nothing, so LsFiles gives the same list for
\* every branch before and after it, however often it is repeated.
C6_RefreshIdempotent ==
    [][\A p \in Procs : RefreshReturns(p) /\ ~FetchFailed(p) =>
          /\ loc'[p].err = NilErr
          /\ ~NeedsUpdate(refs'[op[p].co], seen[p].lockRemote)
          /\ ~NeedsUpdate(seen[p].lock, seen[p].lockRemote) =>
                /\ refs'[op[p].co] = seen[p].lock
                /\ \A b \in BranchNames :
                      lsFilesNoLock(refs'[op[p].co], objs'[op[p].co], b)
                        = lsFilesNoLock(seen[p].lock, seen[p].lockObjs, b)
      ]_vars

\* C6 happens: Refresh was called twice in a row on repoA, whose remote
\* never changed, and both calls returned nil; an LsFiles after them lists
\* the files of the cloned commit.
C6_Witness ==
    /\ pushes = 0
    /\ pc["p3"] = "done" /\ op["p3"].co = "repoA" /\ loc["p3"].err = NilErr
    /\ ErrorsIs(loc["p3"].fetchErr, "NoErrAlreadyUpToDate")
    /\ pc["p2"] = "done" /\ op["p2"].name = "Refresh" /\ loc["p2"].err = NilErr
    /\ ErrorsIs(loc["p2"].fetchErr, "NoErrAlreadyUpToDate")
    /\ pc["p1"] = "done" /\ op["p1"].name = "LsFiles"
    /\ loc["p1"].ret = [kind |-> "names", val |-> CommitFileNames("m1")]

\* a goroutine waiting for the lock of its checkout can take it as soon as
\* that checkout's own lock allows it
NeverBlockedByOthers ==
    \A p \in Procs :
        /\ pc[p] = "RLock" /\ mu[op[p].co].w = None => ENABLED RLock(p)
        /\ pc[p] = "Lock" /\ mu[op[p].co].w = None => ENABLED Lock(p)
        /\ pc[p] = "LockWait" /\ mu[op[p].co].readers = {} => ENABLED LockEnter(p)

\* C7: operations on different checkouts are independent: a read or Refresh
\* never waits for what happens on another checkout, and a step of an
\* operation on one checkout leaves the refs, the object store and the lock
\* of every other checkout unchanged.
C7_CheckoutsIndependent ==
    /\ []NeverBlockedByOthers
    /\ [][\A p \in Procs : pc'[p] # pc[p] \/ loc'[p] # loc[p] =>
            \A d \in Checkouts \ {op'[p].co} :
                /\ refs'[d] = refs[d] /\ objs'[d] = objs[d]
                /\ mu'[d] = mu[d] /\ committed'[d] = committed[d]]_vars

\* C7 happens: a Refresh is moving the refs of repoA while a read is inside
\* its locked section on repoB.
C7_Witness ==
    /\ pc["p3"] = "UpdateRefs" /\ op["p3"].co = "repoA"
    /\ pc["p2"] = "GetFile" /\ op["p2"].co = "repoB"
    /\ mu["repoB"].readers = {"p2"} /\ mu["repoA"].w = "p3"


\* the branch of the request of p had a tracking ref when p took the lock
BranchTracked(p) ==
    /\ op[p].branch \in Branches
    /\ seen[p].lock[op[p].branch] # NoRef

\* the commit that ref pointed to
LockedCommit(p) == seen[p].lock[op[p].branch]

\* C8: GetFile tells its two not-found cases apart: without a tracking ref
\* the error matches UnknownBranchErr and not ErrFileNotFound; with one and
\* a path that is no file of the tree it matches ErrFileNotFound and not
\* UnknownBranchErr; neither returns content.
C8_NotFoundDistinguished ==
    \A p \in Procs : pc[p] = "done" /\ op[p].name = "GetFile" =>
        /\ ~BranchTracked(p) =>
              /\ ErrorsIs(loc[p].err, "UnknownBranchErr")
              /\ ~ErrorsIs(loc[p].err, "ErrFileNotFound")
              /\ loc[p].ret = NoResult
        /\ BranchTracked(p) /\ op[p].path \notin DOMAIN CommitFiles(LockedCommit(p)) =>
              /\ ErrorsIs(loc[p].err, "ErrFileNotFound")
              /\ ~ErrorsIs(loc[p].err, "UnknownBranchErr")
              /\ loc[p].ret = NoResult

\* C8 happens: GetFile was asked on master for a file that only staging has.
C8_Witness ==
    /\ pc["p1"] = "done" /\ op["p1"].name = "GetFile"
    /\ op["p1"].branch = "master" /\ op["p1"].path = <<"g">>
    /\ ErrorsIs(loc["p1"].err, "ErrFileNotFound")

\* C9: for a tracked branch and the path of a file committed in its tree,
\* GetFile returns nil and the bytes committed at that path in the commit
\* the ref pointed to while GetFile held the lock; a path that is no file
\* of that commit (a file of another branch) is not found.
C9_GetFileReturnsCommittedBytes ==
    \A p \in Procs : pc[p] = "done" /\ op[p].name = "GetFile" /\ BranchTracked(p) =>
        IF op[p].path \in DOMAIN CommitFiles(LockedCommit(p))
        THEN /\ loc[p].err = NilErr
             /\ loc[p].ret.kind = "bytes"
             /\ loc[p].ret.val = CommitFiles(LockedCommit(p))[op[p].path]
        ELSE /\ loc[p].err # NilErr
             /\ loc[p].ret = NoResult

\* C9 happens: after a Refresh fetched a push to staging, GetFile returned
\* the new bytes of the file that only staging has.
C9_Witness ==
    /\ pc["p1"] = "done" /\ op["p1"].name = "GetFile"
    /\ op["p1"].branch = "staging" /\ op["p1"].path = <<"g">>
    /\ seen["p1"].lock["staging"] = "s2"
    /\ loc["p1"].err = NilErr
    /\ loc["p1"].ret = [kind |-> "bytes", val |-> "staging v2\n"]

RECURSIVE UpToSlash(_)
\* the part of s before its first "/"
UpToSlash(s) ==
    IF s = <<>> \/ Head(s) = "/" THEN <<>> ELSE <<Head(s)>> \o UpToSlash(Tail(s))

\* the committed paths below directory dir, relative to it
PathsBelow(h, dir) ==
    IF dir = <<>> THEN DOMAIN CommitFiles(h)
    ELSE {SubSeq(f, Len(dir) + 2, Len(f)) :
            f \in {f \in DOMAIN CommitFiles(h) : HasPrefix(f, Append(dir, "/"))}}

\* the names of the immediate children of dir
ChildNames(h, dir) == {UpToSlash(f) : f \in PathsBelow(h, dir)}

\* C10: a successful LsDir returns exactly one FileStat per immediate child
\* of the tree at dir (the root for the empty dir), none from a deeper
\* level, in ascending order of Name.
C10_LsDirImmediateSorted ==
    \A p \in Procs : pc[p] = "done" /\ op[p].name = "LsDir" /\ loc[p].err = NilErr =>
        /\ BranchTracked(p)
        /\ loc[p].ret.kind = "stats"
        /\ LET stats == loc[p].ret.val
               h == LockedCommit(p)
               names == ChildNames(h, op[p].path)
           IN  /\ names # {}
               /\ {stats[i].Name : i \in 1..Len(stats)} = names
               /\ Len(stats) = Cardinality(names)
               /\ \A i \in 1..Len(stats) :
                     /\ \A k \in 1..Len(stats[i].Name) : stats[i].Name[k] # "/"
                     /\ IsDirEntry(stats[i]) <=>
                          \E f \in PathsBelow(h, op[p].path) :
                              HasPrefix(f, Append(stats[i].Name, "/"))
               /\ \A i \in 1..(Len(stats) - 1) : StrLess(stats[i].Name, stats[i + 1].Name)

\* C10 happens: LsDir listed the root of master, where the stored order of
\* the entries (a.b before the directory a) is not the order of the names.
C10_Witness ==
    /\ pc["p1"] = "done" /\ op["p1"].name = "LsDir"
    /\ op["p1"].branch = "master" /\ op["p1"].path = <<>>
    /\ loc["p1"].err = NilErr
    /\ LockedCommit("p1") = "m1"
    /\ Len(loc["p1"].ret.val) = Cardinality({<<"a">>, <<"a", ".", "b">>, <<"m">>})
    /\ loc["p1"].ret.val[1].Name = <<"a">>
    /\ loc["p1"].ret.val[2].Name = <<"a", ".", "b">>


\* dir names a tree of commit h: the root, or a directory some file is in
DirExists(h, dir) ==
    dir = <<>> \/ \E f \in DOMAIN CommitFiles(h) : HasPrefix(f, Append(dir, "/"))

\* C11: LsDir on a tracked branch, for a dir that names nothing in the tree
\* or names a file, returns an error matching ErrDirectoryNotFound and no
\* listing; that error does not match UnknownBranchErr, and the error for a
\* branch without tracking ref does not match ErrDirectoryNotFound.
C11_DirNotFoundDistinguished ==
    \A p \in Procs : pc[p] = "done" /\ op[p].name = "LsDir" =>
        /\ BranchTracked(p) /\ ~DirExists(LockedCommit(p), op[p].path) =>
              /\ ErrorsIs(loc[p].err, "ErrDirectoryNotFound")
              /\ ~ErrorsIs(loc[p].err, "UnknownBranchErr")
              /\ loc[p].ret = NoResult
        /\ ~BranchTracked(p) =>
              /\ ErrorsIs(loc[p].err, "UnknownBranchErr")
              /\ ~ErrorsIs(loc[p].err, "ErrDirectoryNotFound")
              /\ loc[p].ret = NoResult

\* C11 happens: LsDir was asked on master for "m", which is a file.
C11_Witness ==
    /\ pc["p1"] = "done" /\ op["p1"].name = "LsDir"
    /\ op["p1"].branch = "master" /\ op["p1"].path = <<"m">>
    /\ <<"m">> \in DOMAIN CommitFiles(LockedCommit("p1"))
    /\ ErrorsIs(loc["p1"].err, "ErrDirectoryNotFound")
    /\ loc["p1"].ret = NoResult


\* the directory a prefix names, its separators at both ends left out
PrefixDir(prefix) == Trim(prefix, "/")

\* the path f lies under d: d is the root, the path itself, or a directory
\* the path goes through
IsUnder(f, d) == d = <<>> \/ f = d \/ HasPrefix(f, Append(d, "/"))

\* the path f relative to d (empty for d itself)
RelativeTo(f, d) == IF d = <<>> THEN f ELSE SubSeq(f, Len(d) + 2, Len(f))

\* C12: the entry names of the archive ZipContent(branch, prefix) makes are
\* the paths LsFiles(branch) lists under the prefix, the prefix stripped;
\* each entry holds the content of its file on that branch; the returned
\* count is the number of entries.
C12_ZipIsFilesUnderPrefix ==
    \A p \in Procs :
        pc[p] = "done" /\ op[p].name = "ZipContent" /\ BranchTracked(p)
        /\ loc[p].err = NilErr =>
            LET h == LockedCommit(p)
                d == PrefixDir(op[p].path)
                entries == loc[p].ret.val
                under == {f \in DOMAIN CommitFiles(h) : IsUnder(f, d)}
            IN  /\ {entries[i].name : i \in 1..Len(entries)}
                      = {RelativeTo(f, d) : f \in under}
                /\ \A i \in 1..Len(entries) :
                      \E f \in under : /\ entries[i].name = RelativeTo(f, d)
                                       /\ entries[i].content = CommitFiles(h)[f]
                /\ loc[p].ret.n = Len(entries)

(***************************************************************************)
(* Properties of the HTTP layer.                                           *)
(***************************************************************************)
\* the handler has answered request p
Answered(p, name) == pc[p] = "done" /\ op[p].name = name /\ loc[p].code # 0

\* the alias of the request names a checkout and its branch is tracked
RepoBranchExist(o) ==
    /\ o.repo \in DOMAIN HandlerCheckouts
    /\ o.branch \in Branches
    /\ refs[HandlerCheckouts[o.repo]][o.branch] # NoRef

\* h is the commit the tracking ref of the request points to, or pointed to
\* before a refresh moved it
PointedTo(o, h) ==
    LET now == refs[HandlerCheckouts[o.repo]][o.branch]
    IN  h # NoRef /\ (h = now \/ NextCommit(h) = now)

\* the tracked files of commit h the archive of dir is made of
ZipMatched(h, dir) == {f \in DOMAIN CommitFiles(h) : HasPrefix(f, Trim(dir, "/"))}

\* C13: GET /zip answers 200 with the archive exactly when the repo and the
\* branch exist and at least one tracked file matched dir; with no file
\* matched it answers 404, and so it does for an unknown repo or branch;
\* the archive it serves has one entry per matched file.
C13_ZipStatus ==
    \A p \in Procs : Answered(p, "zipDirHandler") =>
        LET o == op[p]
        IN  IF RepoBranchExist(o)
            THEN /\ PointedTo(o, loc[p].r)
                 /\ IF ZipMatched(loc[p].r, o.path) # {}
                    THEN /\ loc[p].code = 200
                         /\ loc[p].ret.kind = "zip"
                         /\ loc[p].ret.n = Cardinality(ZipMatched(loc[p].r, o.path))
                         /\ loc[p].ret.n >= 1
                    ELSE loc[p].code = 404 /\ loc[p].ret = NoResult
            ELSE loc[p].code = 404 /\ loc[p].ret = NoResult

\* GET /zip of a directory that holds nothing on master has been answered 404
C13_Witness ==
    /\ Answered("p1", "zipDirHandler")
    /\ op["p1"].repo = "repoA" /\ op["p1"].branch = "master" /\ op["p1"].path = <<"x">>
    /\ loc["p1"].code = 404
    /\ loc["p1"].body = "no files in path"

\* C14: GET /file answers 200 with the committed bytes when repo, branch and
\* path exist; 404 when the alias is unknown, the branch is unknown, the path
\* is no file of the commit, or one of the three is empty; 500 only for a
\* failure that is none of these.
C14_FileStatus ==
    \A p \in Procs : Answered(p, "getFileHandler") =>
        LET o == op[p]
        IN  IF o.repo = "" \/ o.branch = "" \/ o.path = <<>> \/ ~RepoBranchExist(o)
            THEN loc[p].code = 404 /\ loc[p].ret = NoResult
            ELSE /\ PointedTo(o, loc[p].r)
                 /\ IF o.path \in DOMAIN CommitFiles(loc[p].r)
                    THEN /\ loc[p].code = 200
                         /\ loc[p].ret = [kind |-> "bytes",
                                          val |-> CommitFiles(loc[p].r)[o.path]]
                    ELSE /\ loc[p].ret = NoResult
                         /\ IF loc[p].r \in objs[HandlerCheckouts[o.repo]]
                            THEN loc[p].code = 404
                            ELSE loc[p].code = 500

\* GET /file of a path that is not in the commit has been answered 404
C14_Witness ==
    /\ Answered("p1", "getFileHandler")
    /\ op["p1"].repo = "repoA" /\ op["p1"].branch = "master" /\ op["p1"].path = <<"x">>
    /\ loc["p1"].code = 404
    /\ loc["p1"].body = "unable to find file"

\* C15: GET /ls answers 200 with the listing of dir when repo, branch and
\* directory exist; 404 when the alias is unknown, the branch is unknown or
\* dir is no directory of the commit; 500 only for a failure that is none of
\* these.
C15_LsStatus ==
    \A p \in Procs : Answered(p, "lsDirHandler") =>
        LET o == op[p]
        IN  IF o.repo = "" \/ o.branch = "" \/ ~RepoBranchExist(o)
            THEN loc[p].code = 404 /\ loc[p].ret = NoResult
            ELSE /\ PointedTo(o, loc[p].r)
                 /\ IF DirExists(loc[p].r, o.path)
                    THEN /\ loc[p].code = 200
                         /\ loc[p].body = "application/json"
                         /\ loc[p].ret.kind = "stats"
                         /\ {loc[p].ret.val[i].Name : i \in 1..Len(loc[p].ret.val)}
                                = ChildNames(loc[p].r, o.path)
                    ELSE /\ loc[p].ret = NoResult
                         /\ IF loc[p].r \in objs[HandlerCheckouts[o.repo]]
                            THEN loc[p].code = 404
                            ELSE loc[p].code = 500

\* GET /ls of a path that names a file has been answered 404
C15_Witness ==
    /\ Answered("p1", "lsDirHandler")
    /\ op["p1"].repo = "repoA" /\ op["p1"].branch = "master" /\ op["p1"].path = <<"m">>
    /\ loc["p1"].code = 404
    /\ loc["p1"].body = "directory not found"

\* the Refresh calls request p has made, and the checkouts they were made on
NumCalls(p) == Len(seen[p].calls)
Called(p) == {seen[p].calls[i] : i \in 1..NumCalls(p)}

\* C16: a GET or a POST to /refresh/{repo} makes exactly one Refresh, on the
\* checkout of that alias, and answers 200 "OK" when it succeeded and 500
\* when it failed; for an unknown alias it answers 404 and makes no Refresh.
C16_RefreshRepoEitherMethod ==
    \A p \in Procs : pc[p] = "done" /\ op[p].name = "refreshRepoHandler" =>
        IF op[p].repo \in DOMAIN HandlerCheckouts
        THEN /\ seen[p].calls = <<HandlerCheckouts[op[p].repo]>>
             /\ Len(seen[p].results) = 1
             /\ IF seen[p].results[1] = NilErr
                THEN loc[p].code = 200 /\ loc[p].body = "OK"
                ELSE loc[p].code = 500
        ELSE loc[p].code = 404 /\ seen[p].calls = <<>>

\* request p runs refreshAllRepoHandler
InRefreshAll(p) == op[p].name = "refreshAllRepoHandler" /\ pc[p] # "idle"

\* C17: RefreshAll has at most one Refresh in progress; the first Refresh
\* that fails is its last: it answers 500, the checkouts not yet visited get
\* no Refresh from it, and the checkouts refreshed before keep what they
\* fetched (no step of any request moves a ref backwards, and the answering
\* step changes no ref and no object).
C17_RefreshAllStopsAtFailure ==
    /\ [](\A p \in Procs : InRefreshAll(p) =>
            /\ NumCalls(p) - Len(seen[p].results) \in {0, 1}
            /\ Called(p) \cap loc[p].visit = {}
            /\ \A i \in 1..Len(seen[p].results) :
                  seen[p].results[i] # NilErr =>
                      /\ i = Len(seen[p].results)
                      /\ NumCalls(p) = i
                      /\ pc[p] = "done"
                      /\ loc[p].code = 500
            /\ (pc[p] = "done" /\ loc[p].code = 500) =>
                  /\ seen[p].results # <<>>
                  /\ seen[p].results[Len(seen[p].results)] # NilErr)
    /\ [][/\ \A c \in Checkouts : NotOlder(refs'[c], refs[c])
          /\ \A p \in Procs :
                pc[p] = "refreshAllReturn" /\ pc'[p] = "done" =>
                    refs' = refs /\ objs' = objs]_vars

\* RefreshAll has answered 500 after its second Refresh failed, and the
\* checkout it refreshed first holds the commit that Refresh fetched
C17_Witness ==
    /\ pc["p2"] = "done" /\ InRefreshAll("p2")
    /\ loc["p2"].code = 500
    /\ NumCalls("p2") = 2
    /\ seen["p2"].results[1] = NilErr
    /\ refs[seen["p2"].calls[1]]["master"] = "m2"

\* C18: when RefreshAll answers 200 it has called Refresh exactly once on
\* every checkout of the alias map, every call returned nil, and each call
\* was made after the one before had returned.
C18_RefreshAllOKMeansAll ==
    \A p \in Procs : InRefreshAll(p) =>
        /\ NumCalls(p) - Len(seen[p].results) \in {0, 1}
        /\ (pc[p] = "done" /\ loc[p].code = 200) =>
              /\ loc[p].body = "OK"
              /\ Called(p) = {HandlerCheckouts[a] : a \in DOMAIN HandlerCheckouts}
              /\ NumCalls(p) = Cardinality(DOMAIN HandlerCheckouts)
              /\ Len(seen[p].results) = NumCalls(p)
              /\ \A i \in 1..Len(seen[p].results) : seen[p].results[i] = NilErr

\* RefreshAll has answered 200 after refreshing both checkouts
C18_Witness ==
    /\ pc["p2"] = "done" /\ InRefreshAll("p2")
    /\ loc["p2"].code = 200
    /\ NumCalls("p2") = 2

\* the webhook delivery p has been answered
Delivered(p) == pc[p] = "done" /\ op[p].name = "githubWebhook"

\* the payload of a delivery cannot be used: it is no JSON, or it is a push
\* without repository or without URL
Malformed(o) ==
    \/ o.payload = "malformed"
    \/ o.hookType = "push" /\ o.payload \in {"norepo", "nourl"}

\* the Refresh the delivery made has failed
RefreshFailed(p) == seen[p].results # <<>> /\ seen[p].results[1] # NilErr

\* C19 as stated: 403 for a bad signature, 400 for a malformed event, an
\* event of a type that is not handled, or a URL that matches no checkout,
\* 500 when the Refresh fails, 200 otherwise.  (A delivery without the event
\* type header may be answered 400 whatever its signature.)
C19_WebhookStatusAsStated ==
    \A p \in Procs : Delivered(p) =>
        LET o == op[p]
        IN  IF o.hookType = "" THEN loc[p].code \in {400, 403}
            ELSE IF o.sig # "valid" THEN loc[p].code = 403
            ELSE IF \/ Malformed(o)
                    \/ o.hookType \notin {"ping", "push"}
                    \/ o.hookType = "push" /\ o.payload \notin DOMAIN CheckoutsByRepo
            THEN loc[p].code = 400
            ELSE IF RefreshFailed(p) THEN loc[p].code = 500
            ELSE loc[p].code = 200

\* C19 amended: 400 without the event type header; otherwise 403 for a bad
\* signature; otherwise 400 for a payload that does not parse or a type the
\* parser does not know; otherwise 406 for a type that is neither ping nor
\* push; a ping is answered 200; a push is answered 400 without repository,
\* without URL or with a URL that matches no checkout, 500 when the Refresh
\* fails and 200 otherwise.
C19_WebhookStatus ==
    \A p \in Procs : Delivered(p) =>
        LET o == op[p]
        IN  IF o.hookType = "" THEN loc[p].code = 400
            ELSE IF o.sig # "valid" THEN loc[p].code = 403
            ELSE IF o.payload = "malformed" \/ o.hookType = "bogus" THEN loc[p].code = 400
            ELSE IF o.hookType \notin {"ping", "push"} THEN loc[p].code = 406
            ELSE IF o.hookType = "ping" THEN loc[p].code = 200 /\ seen[p].calls = <<>>
            ELSE IF \/ o.payload \in {"norepo", "nourl"}
                    \/ o.payload \notin {remoteURL(c) : c \in Checkouts}
            THEN loc[p].code = 400 /\ seen[p].calls = <<>>
            ELSE /\ NumCalls(p) = 1 /\ Len(seen[p].results) = 1
                 /\ IF RefreshFailed(p) THEN loc[p].code = 500 ELSE loc[p].code = 200

\* a signed, well-formed event of a type that is not handled has been
\* answered 406
C19_Witness ==
    /\ Delivered("p3")
    /\ op["p3"].hookType = "issues" /\ op["p3"].sig = "valid"
    /\ op["p3"].payload = "git@github.com:org/repoA.git"
    /\ loc["p3"].code = 406

\* C20: a webhook delivery calls Refresh only with a verified signature, at
\* most once, and only on the checkout whose remote URL is the URL of the
\* event; it holds the lock of no other checkout.
C20_WebhookRefreshesItsCheckout ==
    \A p \in Procs : op[p].name = "githubWebhook" =>
        /\ NumCalls(p) <= 1
        /\ NumCalls(p) = 1 =>
              /\ op[p].sig = "valid"
              /\ op[p].hookType = "push"
              /\ remoteURL(seen[p].calls[1]) = op[p].payload
        /\ \A c \in Checkouts : mu[c].w = p =>
              NumCalls(p) = 1 /\ c = seen[p].calls[1] /\ remoteURL(c) = op[p].payload

\* a signed push for repoB is fetching into repoB
C20_Witness ==
    /\ op["p3"].name = "githubWebhook"
    /\ pc["p3"] = "Fetch"
    /\ op["p3"].payload = remoteURL("repoB")
    /\ seen["p3"].calls = <<"repoB">>
    /\ mu["repoB"].w = "p3"

\* the request came in by one of the routes of SetupPublicJWTHandler
IsPublicRequest(p) == "token" \in DOMAIN op[p]

\* a token signed with the private half of the configured public key, with
\* RS256, inside its time window
ValidBearer(tok) ==
    /\ tok.key = SigningKey
    /\ tok.alg = "RS256"
    /\ ~tok.expired

\* the repository is configured, and configured public
ConfiguredPublic(repo) ==
    /\ repo \in DOMAIN ServingHandler.checkoutConfigs
    /\ ServingHandler.checkoutConfigs[repo].Public

ReadHandlers == {"getFileHandler", "lsDirHandler", "zipDirHandler"}

\* the request is in a read handler, or has resolved a branch of a checkout
ReachedRead(p) ==
    \/ pc[p] \in ReadHandlers \cup {"getFileContent", "lsDirList", "zipDirContent"}
    \/ loc[p].r # NoRef
    \/ op[p].co # "none"

\* C21: a request to /public/file, /public/ls or /public/zip reaches the read
\* of the checkout only with a valid bearer token and a repository configured
\* public; an unknown or non-public repository is answered 404 and a bad or
\* missing token 401, in both cases without any read.
C21_PublicNeedsTokenAndFlag ==
    \A p \in Procs : IsPublicRequest(p) /\ op[p].name \in ReadHandlers =>
        /\ ReachedRead(p) =>
              ValidBearer(op[p].token) /\ ConfiguredPublic(op[p].repo)
        /\ pc[p] = "done" /\ op[p].method = "GET" /\ ~ConfiguredPublic(op[p].repo) =>
              loc[p].code = 404 /\ ~ReachedRead(p) /\ loc[p].ret = NoResult
        /\ pc[p] = "done" /\ op[p].method = "GET" /\ ConfiguredPublic(op[p].repo)
                /\ ~ValidBearer(op[p].token) =>
              loc[p].code = 401 /\ ~ReachedRead(p) /\ loc[p].ret = NoResult

\* a public request for a file of the public repository, with a valid
\* token, has been answered with the file
C21_Witness ==
    /\ IsPublicRequest("p1") /\ op["p1"].name = "getFileHandler"
    /\ op["p1"].repo = "repoA" /\ ValidBearer(op["p1"].token)
    /\ pc["p1"] = "done" /\ loc["p1"].code = 200
    /\ loc["p1"].r # NoRef

\* C22: once the handler serves, no step of any request (file, ls, zip,
\* refresh, refreshall, webhook, public) adds, removes or replaces an entry of
\* the map from alias to checkout or of the index by remote URL.
C22_MapsFixedAfterConstruction ==
    [][handler.phase = "serving" =>
          /\ handler'.phase = "serving"
          /\ handler'.Checkouts = handler.Checkouts
          /\ handler'.byRepo = handler.byRepo]_vars

\* a public read, a refresh of an unknown alias and a webhook delivery for
\* an unknown URL have been answered, and the maps are as constructed
C22_Witness ==
    /\ pc["p1"] = "done" /\ IsPublicRequest("p1") /\ loc["p1"].code = 200
    /\ pc["p2"] = "done" /\ op["p2"].name = "refreshRepoHandler"
    /\ op["p2"].repo = "nope" /\ loc["p2"].code = 404
    /\ pc["p3"] = "done" /\ op["p3"].name = "githubWebhook"
    /\ op["p3"].payload = "git@github.com:org/other.git" /\ loc["p3"].code = 400
    /\ DOMAIN handler.Checkouts = Checkouts
    /\ DOMAIN handler.byRepo = {remoteURL(c) : c \in Checkouts}

\* the request names an alias the map does not hold
UnknownAlias(p) ==
    /\ op[p].name \in ReadHandlers \cup {"refreshRepoHandler"}
    /\ op[p].repo \notin DOMAIN ServingHandler.Checkouts

\* p has invoked nothing on any checkout: no lock asked for or held, no
\* branch resolved, no fetch
NoCheckoutOperation(p) ==
    /\ op[p].co = "none"
    /\ loc[p].r = NoRef
    /\ seen[p].calls = <<>>
    /\ pc[p] \notin {"Lock", "LockEnter", "Fetch", "UpdateRef", "Unlock",
                     "getFileContent", "lsDirList", "zipDirContent"}
    /\ \A c \in Checkouts : mu[c].w # p /\ p \notin mu[c].readers

\* C23: for file, ls, zip and the refresh of one repository, a request
\* naming an alias that is not in the map invokes no operation on any
\* checkout and, once its handler has answered, the answer is 404.
C23_UnknownAlias404 ==
    \A p \in Procs : UnknownAlias(p) =>
        /\ NoCheckoutOperation(p)
        /\ pc[p] = "done" /\ op[p].method \in RouteMethods(op[p].name) =>
              loc[p].code = 404

\* a refresh and a read of the unknown alias "nope" have both been answered
\* 404 while no checkout was touched
C23_Witness ==
    /\ op["p2"].name = "refreshRepoHandler" /\ op["p2"].repo = "nope"
    /\ op["p2"].method = "GET" /\ pc["p2"] = "done" /\ loc["p2"].code = 404
    /\ op["p1"].name = "zipDirHandler" /\ op["p1"].repo = "nope"
    /\ ~IsPublicRequest("p1") /\ pc["p1"] = "done" /\ loc["p1"].code = 404
    /\ \A c \in Checkouts : mu[c].w \notin {"p1", "p2"}

\* C27: a sign-in is answered 200 with a token that verifies under the
\* configured public key exactly when its basic-auth credentials are accepted
\* and nothing fails; without the header or with rejected credentials it is
\* answered 403, when Auth or the signing fails 500, and no answer other than
\* 200 carries a token.
C27_SignIn ==
    \A p \in Procs :
        op[p].name = "JWTSignIn" /\ op[p].method = "POST" /\ pc[p] = "done" =>
            LET a == op[p].basicAuth
                failed == loc[p].err # NilErr
            IN  /\ loc[p].code = 200 <=> (a = "good" /\ ~failed)
                /\ loc[p].code = 200 =>
                      /\ loc[p].ret.kind = "token"
                      /\ ValidBearer(loc[p].ret.val)
                      /\ PublicOf(loc[p].ret.val.key) = JWTPublicKey
                /\ a = "none" => loc[p].code = 403
                /\ a = "bad" /\ ~failed => loc[p].code = 403
                /\ failed => loc[p].code = 500
                /\ loc[p].code # 200 => loc[p].ret = NoResult

\* a sign-in with the configured credentials has been answered with a token
C27_Witness ==
    /\ op["p2"].name = "JWTSignIn" /\ op["p2"].basicAuth = "good"
    /\ pc["p2"] = "done" /\ loc["p2"].code = 200
    /\ loc["p2"].ret.kind = "token"


\* entry i of the configuration has no URL, or was not cloned
NotCloned(i) ==
    \/ TrimSpace(handler.cfg[i].URL) = <<>>
    \/ ~handler.log[i].cloned

\* C24: when a configured repository has an empty URL or is not cloned,
\* NewHandler returns an error and no handler, and nothing is ever served; a
\* handler is returned, and requests are routed, only when every configured
\* repository was cloned.
C24_NoHandlerUnlessAllCloned ==
    /\ (\E i \in 1..Len(handler.log) : NotCloned(i)) =>
          /\ handler.phase = "failed"
          /\ DOMAIN handler.Checkouts = {}
          /\ DOMAIN handler.byRepo = {}
    /\ handler.phase \in {"constructed", "serving"} =>
          /\ Len(handler.log) = Len(handler.cfg)
          /\ \A i \in 1..Len(handler.cfg) : ~NotCloned(i)
          /\ \A k \in DOMAIN handler.Checkouts :
                handler.log[handler.Checkouts[k].id].cloned
    /\ \A p \in Procs : pc[p] # "idle" => handler.phase = "serving"

\* the first repository was cloned, the clone of the second failed, and
\* NewHandler has returned its error
C24_Witness ==
    /\ handler.phase = "failed"
    /\ Len(handler.log) = 2
    /\ handler.log[1].cloned
    /\ handler.log[2].err = "unable to clone repo"
    /\ \A p \in Procs : pc[p] = "idle"

\* C26: no two checkouts of the handler have the same backing path: each
\* entry is cloned into a directory that did not exist before and that no
\* other entry is cloned into, also when two entries have the same URL.
C26_NoSharedBackingPath ==
    /\ \A k1, k2 \in DOMAIN handler.Checkouts :
          k1 # k2 => handler.Checkouts[k1].absPath # handler.Checkouts[k2].absPath
    /\ \A i \in 1..Len(handler.log) : handler.log[i].into # <<>> =>
          /\ handler.log[i].fresh
          /\ handler.log[i].into \in handler.fs
          /\ \A j \in 1..Len(handler.log) :
                j # i => handler.log[j].into # handler.log[i].into

\* two entries with the same URL are served from different directories,
\* neither of them the one an earlier run left
C26_Witness ==
    /\ handler.phase = "serving"
    /\ Len(handler.cfg) = 2
    /\ TrimSpace(handler.cfg[1].URL) = TrimSpace(handler.cfg[2].URL)
    /\ Cardinality(DOMAIN handler.Checkouts) = 2
    /\ Leftover \in handler.fs
    /\ handler.log[1].into # handler.log[2].into

CountChar(s, ch) == Cardinality({i \in 1..Len(s) : s[i] = ch})

\* the text after the first ch of s
AfterChar(s, ch) ==
    LET i == CHOOSE n \in 1..Len(s) : s[n] = ch /\ \A k \in 1..(n - 1) : s[k] # ch
    IN  SubSeq(s, i + 1, Len(s))

\* the text before the first ch of s
BeforeChar(s, ch) ==
    LET i == CHOOSE n \in 1..Len(s) : s[n] = ch /\ \A k \in 1..(n - 1) : s[k] # ch
    IN  SubSeq(s, 1, i - 1)

\* C28: an entry without alias is registered under the name derived from its
\* URL, which for a URL with exactly one "/" and exactly one "." after it is
\* the text between the two; an entry with a non-empty alias is registered
\* under the alias.
C28_KeyFromAliasOrURL ==
    \A i \in 1..Len(handler.log) : handler.log[i].err = "" =>
        LET e == handler.cfg[i]
            u == TrimSpace(e.URL)
            key == handler.log[i].key
        IN  /\ e.Alias # <<>> => key = e.Alias
            /\ (/\ e.Alias = <<>>
                /\ CountChar(u, "/") = 1
                /\ CountChar(AfterChar(u, "/"), ".") = 1)
                  => key = BeforeChar(AfterChar(u, "/"), ".")
            /\ handler.phase # "failed" => key \in DOMAIN handler.Checkouts

\* h.c/a.g, configured without alias, is served under the key a
C28_Witness ==
    /\ handler.phase = "serving"
    /\ Len(handler.cfg) = 1
    /\ handler.cfg[1].Alias = <<>>
    /\ handler.cfg[1].URL = <<"h", ".", "c", "/", "a", ".", "g">>
    /\ DOMAIN handler.Checkouts = {<<"a">>}
    /\ handler.Checkouts[<<"a">>].remoteURL = <<"h", ".", "c", "/", "a", ".", "g">>


\* C25 (as stated): a read whose context was cancelled while it was walking
\* returns a cancellation failure and no result, with its shared lock
\* released and the refs and objects of the checkout as they were.
C25_CancelledReadFails ==
    \A p \in Procs : IsRead(p) /\ loc[p].cancelled /\ pc[p] = "done" =>
        /\ p \notin mu[op[p].co].readers
        /\ ErrorsIs(loc[p].err, "context.Canceled")
        /\ loc[p].ret = NoResult

\* p is a GetFile that found its file
GetFileSucceeds(p) ==
    /\ op[p].name = "GetFile"
    /\ pc[p] \in {"RUnlock", "done"}
    /\ loc[p].err = NilErr
    /\ loc[p].ret # NoResult

\* C29: a read holds the shared lock from its branch resolution to its
\* return, every read of the object store is made under it, and what the
\* caller of GetFile reads was read from the object store under it.
C29_ContentReadUnderLock ==
    \A p \in Procs : IsRead(p) =>
        /\ Walking(p) \/ pc[p] = "RUnlock" => p \in mu[op[p].co].readers
        /\ ~loc[p].late
        /\ Len(loc[p].got) <= Len(loc[p].buf)
        /\ \A i \in 1..Len(loc[p].got) : loc[p].got[i] = loc[p].buf[i]

\* the caller has read the whole file while a Refresh of the checkout is
\* fetching
C29_Witness ==
    /\ GetFileSucceeds("p1") /\ pc["p1"] = "done"
    /\ Len(loc["p1"].got) = MaxChunks
    /\ mu["repoA"].w = "p3" /\ mu["repoA"].active

\* C30 (as stated): GetFile returns before the blob has been read in full,
\* and the object store is read only as far as the caller has consumed.
C30_GetFileLazy ==
    \A p \in Procs : GetFileSucceeds(p) /\ pc[p] = "done" =>
        Len(loc[p].buf) <= Len(loc[p].got)

\* C30 (amended): GetFile returns a buffer that holds the whole blob, read
\* from the object store before the return; the caller reads the buffer.
C30_GetFileBuffered ==
    \A p \in Procs : GetFileSucceeds(p) =>
        /\ loc[p].ret.kind = "buffer"
        /\ Len(loc[p].buf) = BlobSize(loc[p].f)
        /\ loc[p].ret.val = [n \in 1..BlobSize(loc[p].f) |-> Chunk(loc[p].f, n)]
        /\ \A i \in 1..Len(loc[p].got) : loc[p].got[i] = loc[p].ret.val[i]

\* GetFile has returned, the caller has not read yet, and the buffer holds
\* every chunk of the blob
C30_Witness ==
    /\ GetFileSucceeds("p1") /\ pc["p1"] = "done"
    /\ loc["p1"].got = <<>>
    /\ Len(loc["p1"].buf) = MaxChunks
    /\ MaxChunks > 1


\* p resolves the branch in this step: the Reference call of GetFile, LsFiles
\* and LsDir, and both Reference calls of ZipContent
Resolves(p) ==
    /\ IsRead(p)
    /\ pc[p] \in {"GetFile", "LsFiles", "LsDir", "ZipContent", "ZipLoop"}
    /\ pc'[p] # pc[p]

\* what p holds as the resolved ref after the step
ResolvedNow(p) == IF pc[p] = "ZipLoop" THEN loc'[p].r2 ELSE loc'[p].r

\* C31: every read resolves the branch while it holds the shared lock and no
\* writer is inside, and what it resolves to is the tracking ref as it is at
\* that moment, not one kept from an earlier call; so a read called after a
\* successful Refresh moved the ref resolves to the commit that Refresh
\* brought (or to one a later Refresh brought), never to an older one.
C31_ResolvedFreshUnderLock ==
    [][\A p \in Procs : Resolves(p) =>
          LET c == op[p].co
              b == op[p].branch
          IN  /\ p \in mu[c].readers
              /\ ~mu[c].active
              /\ pc[p] = "ZipLoop" /\ loc[p].lsErr # NilErr => ResolvedNow(p) = NoRef
              /\ ~(pc[p] = "ZipLoop" /\ loc[p].lsErr # NilErr) =>
                    ResolvedNow(p) = IF b \in Branches THEN refs[c][b] ELSE NoRef
              /\ b \in Branches /\ ResolvedNow(p) # NoRef =>
                    /\ ResolvedNow(p) = committed[c][b]
                    /\ ResolvedNow(p) \in {seen[p].begin[b], NextCommit(seen[p].begin[b]),
                                          NextCommit(NextCommit(seen[p].begin[b]))}
      ]_vars

\* C31 happens: a GetFile called after a Refresh had moved origin/master from
\* m1 to m2 resolved master to m2, and a ZipContent called after a Refresh
\* had moved origin/staging resolved staging to s2 both times.
C31_Witness ==
    /\ pc["p1"] = "done" /\ op["p1"].name = "GetFile" /\ op["p1"].branch = "master"
    /\ seen["p1"].begin["master"] = "m2"
    /\ loc["p1"].r = "m2"
    /\ pc["p2"] = "done" /\ op["p2"].name = "ZipContent"
    /\ seen["p2"].begin["staging"] = "s2"
    /\ loc["p2"].r = "s2" /\ loc["p2"].r2 = "s2"


\* the prefixes that differ from x only in leading or trailing "/"
SlashSpellings(x) ==
    LET t == TrimRight(TrimLeft(x, "/"), "/")
    IN  {t, <<"/">> \o t, t \o <<"/">>, <<"/">> \o t \o <<"/">>,
         <<"/", "/">> \o t \o <<"/", "/">>}

\* ZipContent(prefix, branch) on the store <<refsC, objsC>>
ZipOf(refsC, objsC, prefix, branch) ==
    LET l == lsFilesNoLock(refsC, objsC, branch)
    IN  ZipContentLocked(refsC, objsC, l.files, l.err, prefix, branch)

\* C32: what ZipContent returned for a prefix is what it returns, on the same
\* store and branch, for every prefix that differs only in leading or
\* trailing "/": the same entries (names and contents), the same count, the
\* same error; and no entry name starts with "/".
C32_ZipPrefixTrimmed ==
    \A p \in Procs : pc[p] = "done" /\ op[p].name = "ZipContent" =>
        /\ \A y \in SlashSpellings(op[p].path) :
              LET z == ZipOf(seen[p].lock, seen[p].lockObjs, y, op[p].branch)
              IN  z.err = loc[p].err /\ z.ret = loc[p].ret
        /\ loc[p].ret # NoResult =>
              \A i \in 1..Len(loc[p].ret.val) : ~HasPrefix(loc[p].ret.val[i].name, <<"/">>)

\* C32 happens: ZipContent("/a/", "master") returned the files of a with the
\* names f, s/x and s/y, which "a" and "a/" give too.
C32_Witness ==
    /\ pc["p1"] = "done" /\ op["p1"].name = "ZipContent"
    /\ op["p1"].branch = "master" /\ op["p1"].path = <<"/", "a", "/">>
    /\ seen["p1"].lock["master"] = "m1"
    /\ loc["p1"].err = NilErr
    /\ {<<"f">>, <<"s", "/", "x">>, <<"s", "/", "y">>}
          \subseteq {loc["p1"].ret.val[i].name : i \in 1..Len(loc["p1"].ret.val)}
    /\ ZipOf(seen["p1"].lock, seen["p1"].lockObjs, <<"a">>, "master").ret = loc["p1"].ret


\* p takes a step of a read in this step, from RLock to the return
ReadSteps(p) ==
    /\ IsRead(p)
    /\ pc[p] \in {"RLock", "GetFile", "LsFiles", "LsDir", "ZipContent", "ZipLoop", "RUnlock"}
    /\ pc'[p] # pc[p]

\* C33: no step of GetFile, LsFiles, LsDir or ZipContent changes the tracking
\* refs or the object store of any checkout, whatever the read returns; a
\* step that changes those of a checkout is a step of the fetch of a Refresh
\* that holds its lock exclusively and whose fetch has not failed.
C33_OnlyRefreshChangesStore ==
    [][/\ \A p \in Procs : ReadSteps(p) => refs' = refs /\ objs' = objs
       /\ \A c \in Checkouts : refs'[c] # refs[c] \/ objs'[c] # objs[c] =>
             \E p \in Procs : /\ IsRefresh(p) /\ op[p].co = c
                              /\ pc[p] \in {"Fetch", "UpdateRefs"}
                              /\ mu[c].w = p /\ mu[c].active
                              /\ loc'[p].fetchErr = NilErr
                              /\ RefreshResult(loc'[p].fetchErr) = NilErr
      ]_vars

\* C33 happens: on repoA an LsFiles and a ZipContent have returned and a
\* Refresh has brought the pushed commit m2: the store differs from the
\* clone by what that Refresh fetched, and repoB is as cloned.
C33_Witness ==
    /\ pc["p1"] = "done" /\ op["p1"].name = "LsFiles" /\ loc["p1"].err = NilErr
    /\ seen["p1"].lock["master"] = "m2"
    /\ pc["p2"] = "done" /\ op["p2"].name = "ZipContent" /\ loc["p2"].err = NilErr
    /\ pc["p3"] = "done" /\ op["p3"].co = "repoA" /\ loc["p3"].err = NilErr
    /\ refs["repoA"]["master"] = "m2" /\ objs["repoA"] = {"m1", "s1", "m2"}
    /\ refs["repoB"] = [b \in Branches |-> IF b = "master" THEN "m1" ELSE "s1"]


\* C34: a read that waits for the shared lock of a checkout while another
\* read is inside its locked section there, and no Refresh holds or awaits
\* that lock, can take it at once; and two reads inside together keep the
\* lock shared between them.
C34_ReadsShareLock ==
    \A p \in Procs : \A q \in Procs \ {p} :
        IsRead(p) /\ IsRead(q) /\ op[p].co = op[q].co /\ InRead(p) =>
            /\ pc[q] = "RLock" /\ mu[op[q].co].w = None => ENABLED RLock(q)
            /\ InRead(q) => {p, q} \subseteq mu[op[p].co].readers

\* C34 happens: GetFile and ZipContent are both inside their locked sections
\* on repoA, neither having finished, and no Refresh holds or awaits the lock.
C34_Witness ==
    /\ pc["p1"] = "GetFile" /\ op["p1"].co = "repoA"
    /\ pc["p2"] = "ZipLoop" /\ op["p2"].co = "repoA"
    /\ mu["repoA"].readers = {"p1", "p2"}
    /\ mu["repoA"].w = None


\* the goroutines inside the locked section of a read on c
ReadersInside(c) == {p \in Procs : op[p].co = c /\ IsRead(p) /\ InRead(p)}

\* the goroutines that hold or await the exclusive lock of c in a Refresh
WritersAt(c) ==
    {p \in Procs : op[p].co = c /\ pc[p] \in {"LockWait", "Fetch", "UpdateRefs", "Fetched"}}

\* C35: the lock of a checkout is held by exactly the operations that are
\* inside it: an operation that has returned, with or without an error
\* (unknown branch, missing file or directory, zip write error, failed
\* fetch), holds nothing, and with no operation in progress on the checkout
\* its lock is free.
C35_LockReleasedOnReturn ==
    \A c \in Checkouts :
        /\ mu[c].readers = ReadersInside(c)
        /\ IF WritersAt(c) = {} THEN mu[c].w = None /\ ~mu[c].active
                                ELSE WritersAt(c) = {mu[c].w}
        /\ \A p \in Procs : pc[p] = "done" /\ op[p].co = c =>
              p \notin mu[c].readers /\ mu[c].w # p
        /\ (\A p \in Procs : op[p].co = c => pc[p] = "done") =>
              mu[c] = [w |-> None, active |-> FALSE, readers |-> {}]

\* C35 happens: on repoA a GetFile returned unknown branch, a ZipContent
\* returned a write error after one entry and a Refresh returned its fetch
\* failure, and the lock of repoA is free.
C35_Witness ==
    /\ pc["p1"] = "done" /\ op["p1"].name = "GetFile"
    /\ ErrorsIs(loc["p1"].err, "UnknownBranchErr")
    /\ pc["p2"] = "done" /\ op["p2"].name = "ZipContent"
    /\ ErrorsIs(loc["p2"].err, "write error") /\ loc["p2"].ret.n = 1
    /\ pc["p3"] = "done" /\ ErrorsIs(loc["p3"].err, "network failure")
    /\ mu["repoA"] = [w |-> None, active |-> FALSE, readers |-> {}]


\* C36: with every fetch and every tree walk terminating and the lock
\* granted fairly, every operation that was called returns (a Refresh only
\* through its exclusive section); and whenever an operation is in progress
\* some operation can take a step: nothing waits for a lock it holds itself.
C36_EveryOperationReturns ==
    /\ \A p \in Procs : (pc[p] # "idle") ~> (pc[p] = "done")
    /\ []((\E p \in Procs : pc[p] \notin {"idle", "done"}) => ENABLED Step)

\* C36 happens: ZipContent holds the shared lock of repoA and has not yet
\* listed the files, a Refresh awaits the exclusive lock behind it, and a
\* second read waits behind that Refresh.
C36_Witness ==
    /\ pc["p2"] = "ZipContent" /\ op["p2"].co = "repoA"
    /\ pc["p3"] = "LockWait" /\ mu["repoA"].w = "p3" /\ ~mu["repoA"].active
    /\ pc["p1"] = "RLock" /\ op["p1"].co = "repoA"
    /\ mu["repoA"].readers = {"p2"}


\* C37: once the server serves, the remote-URL index maps the remote URL of
\* every checkout of the alias map to that checkout (so that a push event
\* for that URL refreshes the checkout of every alias configured with it).
C37_IndexCoversEveryCheckout ==
    handler.phase = "serving" =>
        \A k \in DOMAIN handler.Checkouts :
            LET c == handler.Checkouts[k]
            IN  /\ c.remoteURL \in DOMAIN handler.byRepo
                /\ handler.byRepo[c.remoteURL] = c

\* the key NewHandler stores entry i of the configuration under
KeyOfEntry(i) == repoKey(handler.cfg[i].Alias, TrimSpace(handler.cfg[i].URL))

\* C38: when NewHandler has returned a handler, the alias map holds for
\* every entry of the configuration, under the key of that entry, the
\* checkout cloned for it, and has as many entries as the configuration.
C38_EveryEntryInMap ==
    handler.phase \in {"constructed", "serving"} /\ handler.cfg # <<>> =>
        /\ \A i \in 1..Len(handler.cfg) :
              /\ KeyOfEntry(i) \in DOMAIN handler.Checkouts
              /\ handler.Checkouts[KeyOfEntry(i)].id = i
        /\ Cardinality(DOMAIN handler.Checkouts) = Len(handler.cfg)


\* the entry has the form KEY=VALUE
HasEquals(e) == \E i \in 1..Len(e) : e[i] = "="

\* the position of the first "=" of an entry that has one
FirstEquals(e) == CHOOSE i \in 1..Len(e) : e[i] = "=" /\ \A j \in 1..(i - 1) : e[j] # "="

\* KEY and VALUE of an entry of the form KEY=VALUE
EntryKey(e) == SubSeq(e, 1, FirstEquals(e) - 1)
EntryValue(e) == SubSeq(e, FirstEquals(e) + 1, Len(e))

\* the value the environment gives the key: that of its last entry KEY=VALUE
\* with that key, empty without one
EnvValue(env, key) ==
    LET at == {i \in 1..Len(env) : HasEquals(env[i]) /\ EntryKey(env[i]) = key}
    IN  IF at = {} THEN <<>>
        ELSE EntryValue(env[CHOOSE i \in at : \A j \in at : j <= i])

\* C39: envToStruct returns no error and leaves in each field the value of
\* the entry KEY=VALUE whose KEY is the tag of the field: an entry without
\* "=" changes nothing, and with an empty environment every field is empty.
C39_EnvCopiedIntoConfig ==
    LET r == envToStruct(handler.env)
    IN  /\ r.err = NilErr
        /\ r.cfg.ApmFile = EnvValue(handler.env, <<"DD_APM_RECEIVER_SOCKET">>)
        /\ r.cfg.StatsFile = EnvValue(handler.env, <<"DD_DOGSTATSD_SOCKET">>)
        /\ handler.phase # "main" /\ handler.name = "datadog" => handler.cfg = r.cfg

\* C40: when Registry.New has returned a nil error the tracer it returned is
\* not nil, and Main never wraps the git protocols with a nil tracer.
C40_TracerUsableWhenNoError ==
    /\ handler.phase # "main" /\ handler.err = NilErr => handler.tracer # "nil"
    /\ handler.wrapped # "nil"

====
